---------------------------- MODULE Spec2Model ----------------------------
(***************************************************************************)
(* Model of the nssm-rs service runner: the supervisor run_service_main,   *)
(* the SCM control handler, the stop ladder stop_child_process, the child  *)
(* process and its two output tailer threads.                              *)
(*                                                                         *)
(* Option<T> values of the source are sequences of length at most one:     *)
(* None is <<>> and Some(x) is <<x>>.                                      *)
(***************************************************************************)
EXTENDS Integers, Sequences, FiniteSets, TLC

VARIABLES
    pc,                   \* position of the supervisor thread in run_service_main
    result,               \* value returned by run_service_main: "none", "Ok", "Err"
    error_from,           \* the `?` that returned the error, "none" if no error
    registry,             \* the service's Parameters key: <<>> absent, <<values>> present
    cli,                  \* the set/get/reset command of the nssm-rs CLI in progress, <<>> if none
    files,                \* the content of the tailers' target files, <<>> where not followed
    tail,                 \* pipe and locals of the current child's tailers, <<>> where not followed
    config,               \* the loaded ServiceConfig, <<>> before the load
    handler,              \* the control handler closure (owner of shutdown_tx)
    last_reply,           \* last ServiceControlHandlerResult of the handler
    chan,                 \* unit values queued on the shutdown channel
    shutdown_seen,        \* where shutdown_rx yielded Ok or Disconnected
    published,            \* statuses accepted by the SCM, in order
    service_exit_code,
    restart_after,        \* Option<Instant>
    consecutive_failures,
    now,                  \* the monotonic clock: ms since the current child's launch
    start_time,           \* launch instant of the current child
    stage_start,          \* `start` of the current stop-ladder wait
    polls,                \* monitoring wake-ups of the current child
    procs,                \* every child spawned, the last one is `child`
    stop_actions          \* stop-ladder actions performed, in order

vars == <<pc, result, error_from, registry, cli, files, tail, config, handler, last_reply, chan,
          shutdown_seen, published, service_exit_code, restart_after,
          consecutive_failures, now, start_time, stage_start, polls, procs,
          stop_actions>>

---------------------------------------------------------------------------
(* Bounds of the model *)

\* children spawned by one invocation
MaxSpawns == 2
\* monitoring wake-ups that find the child still running, per child
MaxPolls == 1
\* Stop/Shutdown controls delivered by the SCM
MaxSends == 2
\* the largest count of consecutive failures a crash loop starts from
MaxFailures == 9
\* the longest AppParameters string drawn, in characters
MaxParamLen == 4
\* lines a child writes on one stream
MaxLines == 2
\* arguments given to install_service
MaxArgs == 2

---------------------------------------------------------------------------
(* Program constants *)

\* recv_timeout of the monitoring loop, ms
MonitorWakeMs == 1000
\* ceiling of one backoff recv_timeout, ms
BackoffWakeMs == 100
\* sleep of one stop-ladder poll, ms
StopPollMs == 50
\* cap of the throttle exponent
ThrottleMaxExp == 8
\* cap of the throttle delay, ms
ThrottleMaxMs == 256000
\* default of AppThrottle and of the three stage timeouts, ms
DefaultMs == 1500
\* exit code given to TerminateProcess and used by Child::kill
KilledCode == 1
\* STILL_ACTIVE, reported for a child terminated without an exit code
StillActive == 259

None == <<>>
Some(x) == <<x>>
IsSome(o) == o # <<>>
Unwrap(o) == o[1]

Min(a, b) == IF a < b THEN a ELSE b

RECURSIVE Pow2(_)
Pow2(n) == IF n = 0 THEN 1 ELSE 2 * Pow2(n - 1)

\* i & bit for a single-bit mask
BitSet(i, bit) == (i \div bit) % 2 = 1

NO_ERROR == [kind |-> "Win32", code |-> 0]
ServiceSpecific(c) == [kind |-> "ServiceSpecific", code |-> c]

Status(state, code) == [current_state |-> state, exit_code |-> code]


---------------------------------------------------------------------------
(* Configuration: cli.rs and the loader of service_manager.rs *)

DefaultConfig ==
    [application             |-> "",
     app_directory           |-> None,
     app_parameters          |-> None,
     display_name            |-> None,
     description             |-> None,
     start_type              |-> "Manual",
     app_priority            |-> "Normal",
     app_no_console          |-> FALSE,
     app_stop_method_skip    |-> 0,
     app_stop_method_console |-> DefaultMs,
     app_stop_method_window  |-> DefaultMs,
     app_stop_method_threads |-> DefaultMs,
     app_throttle            |-> DefaultMs,
     app_exit_default        |-> "Restart",
     app_restart_delay       |-> 0,
     app_stdout              |-> None,
     app_stderr              |-> None,
     app_stdin               |-> None]

\* ExitAction::from_str: the match is on the upper-cased string
ExitActionFromStr(s) ==
    CASE s \in {"Restart", "RESTART", "restart"} -> Some("Restart")
      [] s \in {"Ignore", "IGNORE", "ignore"}    -> Some("Ignore")
      [] s \in {"Exit", "EXIT", "exit"}          -> Some("Exit")
      [] OTHER                                   -> None

\* the match on the AppPriority DWORD in load_service_config
PriorityFromValue(v) ==
    CASE v = 256   -> "Realtime"
      [] v = 128   -> "High"
      [] v = 32768 -> "AboveNormal"
      [] v = 32    -> "Normal"
      [] v = 16384 -> "BelowNormal"
      [] v = 64    -> "Idle"
      [] OTHER     -> "Normal"

\* get_registry_string / get_registry_dword: Err when the value is missing
GetRegistryValue(key, name) ==
    IF name \in DOMAIN key THEN Some(key[name]) ELSE None

\* load_service_config on an opened Parameters key
LoadServiceConfig(key) ==
    LET get(n) == GetRegistryValue(key, n)
        \* a DWORD or an Application string: taken as stored when present
        plain(n, dflt) == IF IsSome(get(n)) THEN Unwrap(get(n)) ELSE dflt
        \* an optional string: Some only when present and not empty
        opt(n) == IF IsSome(get(n)) /\ Unwrap(get(n)) # "" THEN get(n) ELSE None
        \* the same for AppParameters, whose string is kept as its characters
        optChars(n) == IF IsSome(get(n)) /\ Unwrap(get(n)) # <<>> THEN get(n) ELSE None
        d == DefaultConfig
    IN  [application             |-> plain("Application", d.application),
         app_directory           |-> opt("AppDirectory"),
         app_parameters          |-> optChars("AppParameters"),
         display_name            |-> d.display_name,
         description             |-> d.description,
         start_type              |-> d.start_type,
         app_priority            |-> IF IsSome(get("AppPriority"))
                                     THEN PriorityFromValue(Unwrap(get("AppPriority")))
                                     ELSE d.app_priority,
         app_no_console          |-> IF IsSome(get("AppNoConsole"))
                                     THEN Unwrap(get("AppNoConsole")) # 0
                                     ELSE d.app_no_console,
         app_stop_method_skip    |-> plain("AppStopMethodSkip", d.app_stop_method_skip),
         app_stop_method_console |-> plain("AppStopMethodConsole", d.app_stop_method_console),
         app_stop_method_window  |-> plain("AppStopMethodWindow", d.app_stop_method_window),
         app_stop_method_threads |-> plain("AppStopMethodThreads", d.app_stop_method_threads),
         app_throttle            |-> plain("AppThrottle", d.app_throttle),
         app_exit_default        |-> IF IsSome(get("AppExitDefault"))
                                        /\ IsSome(ExitActionFromStr(Unwrap(get("AppExitDefault"))))
                                     THEN Unwrap(ExitActionFromStr(Unwrap(get("AppExitDefault"))))
                                     ELSE d.app_exit_default,
         app_restart_delay       |-> plain("AppRestartDelay", d.app_restart_delay),
         app_stdout              |-> opt("AppStdout"),
         app_stderr              |-> opt("AppStderr"),
         app_stdin               |-> opt("AppStdin")]

\* Parameters keys that vary what the supervision loop reads
RunKeys ==
    { [Application |-> "app.exe", AppThrottle |-> t, AppRestartDelay |-> d,
       AppExitDefault |-> "restart", AppStopMethodConsole |-> 50,
       AppStopMethodWindow |-> 0, AppStopMethodThreads |-> 50] :
        t \in {0, 1500}, d \in {0, 200} }
    \cup { [Application |-> "app.exe", AppExitDefault |-> e, AppStopMethodSkip |-> 14,
            AppStopMethodConsole |-> 50] : e \in {"Ignore", "Exit", "Never"} }

\* Parameters keys with output redirection
PipedKeys ==
    { [Application |-> "app.exe", AppThrottle |-> 0, AppExitDefault |-> e,
       AppStdout |-> "out.log", AppStderr |-> "err.log", AppStopMethodSkip |-> 6,
       AppStopMethodConsole |-> 50] : e \in {"Restart", "Exit"} }
    \cup { [Application |-> "app.exe", AppExitDefault |-> "Ignore",
            AppStdout |-> "", AppStderr |-> "err.log", AppStopMethodSkip |-> 7] }

\* Parameters keys that vary what the stop ladder reads
StopKeys ==
    { [Application |-> "app.exe", AppExitDefault |-> "Exit", AppNoConsole |-> n,
       AppStopMethodSkip |-> s, AppStopMethodConsole |-> 50,
       AppStopMethodWindow |-> 0, AppStopMethodThreads |-> 50] :
        n \in {0, 1}, s \in 0..15 }

\* Parameters keys without a usable Application
BrokenKeys ==
    { [AppThrottle |-> 1500], [Application |-> "", AppExitDefault |-> "Ignore"] }

\* the states of the service's Parameters key at the start of a run
RegistryStates ==
    {None} \cup { Some(k) : k \in RunKeys \cup PipedKeys \cup StopKeys \cup BrokenKeys }

cfg == Unwrap(config)

---------------------------------------------------------------------------
(* Initial state: run_service_main has just been entered *)

Init ==
    /\ pc = "register"
    /\ result = "none"
    /\ error_from = "none"
    /\ registry \in RegistryStates
    /\ cli = None
    /\ files = None
    /\ tail = None
    /\ config = None
    /\ handler = "unregistered"
    /\ last_reply = "none"
    /\ chan = 0
    /\ shutdown_seen = "none"
    /\ published = <<>>
    /\ service_exit_code = NO_ERROR
    /\ restart_after = None
    /\ consecutive_failures = 0
    /\ now = 0
    /\ start_time = 0
    /\ stage_start = 0
    /\ polls = 0
    /\ procs = <<>>
    /\ stop_actions = <<>>

\* the variables of the supervisor's loop
loopVars == <<service_exit_code, restart_after, consecutive_failures,
              start_time, stage_start, polls>>
\* the variables owned by the SCM side
scmVars == <<handler, last_reply, chan>>

\* a `?` that returns the error to service_main
ReturnErr(from) ==
    /\ pc' = "returned"
    /\ result' = "Err"
    /\ error_from' = from

---------------------------------------------------------------------------
(* run_service_main: entry *)

\* service_control_handler::register(&service_name, event_handler)?
RegisterHandler ==
    /\ pc = "register"
    /\ \/ /\ handler' = "registered"
          /\ pc' = "new_manager"
          /\ UNCHANGED <<result, error_from>>
       \/ /\ handler' = "released"
          /\ ReturnErr("register")
    /\ UNCHANGED <<registry, cli, files, tail, config, last_reply, chan, shutdown_seen, published,
                   loopVars, now, procs, stop_actions>>

\* ServiceManager::new().map_err(..)?
NewServiceManager ==
    /\ pc = "new_manager"
    /\ \/ /\ pc' = "load_config"
          /\ UNCHANGED <<result, error_from>>
       \/ ReturnErr("manager")
    /\ UNCHANGED <<registry, cli, files, tail, config, scmVars, shutdown_seen, published,
                   loopVars, now, procs, stop_actions>>

\* service_manager.load_service_config_for_run(&service_name).map_err(..)?
LoadConfig ==
    /\ pc = "load_config"
    /\ IF registry = None
       THEN /\ ReturnErr("config")
            /\ UNCHANGED config
       ELSE /\ config' = Some(LoadServiceConfig(Unwrap(registry)))
            /\ pc' = "set_running"
            /\ UNCHANGED <<result, error_from>>
    /\ UNCHANGED <<registry, cli, files, tail, scmVars, shutdown_seen, published,
                   loopVars, now, procs, stop_actions>>

\* SetRunning with the result of set_service_status dropped instead of `?`
SetRunningIgnoringErr ==
    /\ pc = "set_running"
    /\ pc' = "outer"
    /\ \/ published' = Append(published, Status("Running", NO_ERROR))
       \/ UNCHANGED published
    /\ UNCHANGED <<result, error_from, registry, cli, files, tail, config, scmVars, shutdown_seen,
                   loopVars, now, procs, stop_actions>>

\* status_handle.set_service_status(Running)?
SetRunning ==
    /\ pc = "set_running"
    /\ \/ /\ published' = Append(published, Status("Running", NO_ERROR))
          /\ pc' = "outer"
          /\ UNCHANGED <<result, error_from>>
       \/ /\ ReturnErr("running")
          /\ UNCHANGED published
    /\ UNCHANGED <<registry, cli, files, tail, config, scmVars, shutdown_seen,
                   loopVars, now, procs, stop_actions>>

---------------------------------------------------------------------------
(* run_service_main: 'outer loop *)

\* the current child, the last one spawned
child == Len(procs)

\* shutdown_rx.recv_timeout(..): what the receive yields in this state
RecvOutcome ==
    IF chan > 0 THEN "Ok"
    ELSE IF handler = "released" THEN "Disconnected"
    ELSE "Timeout"

\* BackoffRecv whose Ok and Disconnected arms `continue` instead of `break 'outer`
BackoffRecvContinuing ==
    /\ pc = "outer"
    /\ IsSome(restart_after)
    /\ now < Unwrap(restart_after)
    /\ LET sleep_duration == Min(Unwrap(restart_after) - now, BackoffWakeMs)
       IN  CASE RecvOutcome = "Ok" ->
                   /\ chan' = chan - 1
                   /\ shutdown_seen' = "Backoff"
                   /\ now' = now + sleep_duration
                   /\ UNCHANGED pc
             [] RecvOutcome = "Disconnected" ->
                   /\ shutdown_seen' = "Backoff"
                   /\ now' = now + sleep_duration
                   /\ UNCHANGED <<chan, pc>>
             [] OTHER ->
                   /\ now' = now + sleep_duration
                   /\ UNCHANGED <<chan, shutdown_seen, pc>>
    /\ UNCHANGED <<result, error_from, registry, cli, files, tail, config, handler, last_reply,
                   published, loopVars, procs, stop_actions>>

\* `if let Some(delay_until) = restart_after` with now < delay_until
BackoffRecv ==
    /\ pc = "outer"
    /\ IsSome(restart_after)
    /\ now < Unwrap(restart_after)
    /\ LET sleep_duration == Min(Unwrap(restart_after) - now, BackoffWakeMs)
       IN  CASE RecvOutcome = "Ok" ->
                   /\ chan' = chan - 1
                   /\ shutdown_seen' = "Backoff"
                   /\ pc' = "set_stopped"
                   /\ UNCHANGED now
             [] RecvOutcome = "Disconnected" ->
                   /\ shutdown_seen' = "Backoff"
                   /\ pc' = "set_stopped"
                   /\ UNCHANGED <<chan, now>>
             [] OTHER ->
                   /\ now' = now + sleep_duration
                   /\ UNCHANGED <<chan, shutdown_seen, pc>>
    /\ UNCHANGED <<result, error_from, registry, cli, files, tail, config, handler, last_reply,
                   published, loopVars, procs, stop_actions>>

\* `else { restart_after = None; }`
DelayComplete ==
    /\ pc = "outer"
    /\ IsSome(restart_after)
    /\ now >= Unwrap(restart_after)
    /\ restart_after' = None
    /\ UNCHANGED <<pc, result, error_from, registry, cli, files, tail, config, scmVars, shutdown_seen,
                   published, service_exit_code, consecutive_failures, now,
                   start_time, stage_start, polls, procs, stop_actions>>

\* ParseFrom whose separator arm matches the space only
RECURSIVE ParseFromTabsKept(_, _, _, _)
ParseFromTabsKept(input, args, current_arg, in_quotes) ==
    IF input = <<>>
    THEN IF current_arg # <<>> THEN Append(args, current_arg) ELSE args
    ELSE LET ch == Head(input)
             rest == Tail(input)
         IN  CASE ch = "\"" ->
                     ParseFromTabsKept(rest, args, current_arg, ~in_quotes)
               [] ch = " " ->
                     IF in_quotes
                     THEN ParseFromTabsKept(rest, args, Append(current_arg, ch), in_quotes)
                     ELSE IF current_arg # <<>>
                     THEN ParseFromTabsKept(rest, Append(args, current_arg), <<>>, in_quotes)
                     ELSE ParseFromTabsKept(rest, args, current_arg, in_quotes)
               [] OTHER ->
                     ParseFromTabsKept(rest, args, Append(current_arg, ch), in_quotes)

\* parse_command_line: `for ch in chars { match ch { .. } }` and the final push
RECURSIVE ParseFrom(_, _, _, _)
ParseFrom(input, args, current_arg, in_quotes) ==
    IF input = <<>>
    THEN IF current_arg # <<>> THEN Append(args, current_arg) ELSE args
    ELSE LET ch == Head(input)
             rest == Tail(input)
         IN  CASE ch = "\"" ->
                     ParseFrom(rest, args, current_arg, ~in_quotes)
               [] ch \in {" ", "\t"} ->
                     IF in_quotes
                     THEN ParseFrom(rest, args, Append(current_arg, ch), in_quotes)
                     ELSE IF current_arg # <<>>
                     THEN ParseFrom(rest, Append(args, current_arg), <<>>, in_quotes)
                     ELSE ParseFrom(rest, args, current_arg, in_quotes)
               [] OTHER ->
                     ParseFrom(rest, args, Append(current_arg, ch), in_quotes)

\* the Stdio chosen for stdout and stderr
Piped == IsSome(cfg.app_stdout) \/ IsSome(cfg.app_stderr)

\* parse_command_line started inside quotes
parse_command_line_in_quotes(input) == ParseFrom(input, <<>>, <<>>, TRUE)

\* parse_command_line: the state after `let mut in_quotes = false`, then the scan
parse_command_line(input) == ParseFrom(input, <<>>, <<>>, FALSE)

\* `cmd.args(parse_command_line(params))` when app_parameters is Some
ChildArgs ==
    IF IsSome(cfg.app_parameters)
    THEN parse_command_line(Unwrap(cfg.app_parameters))
    ELSE <<>>

\* ChildStdio with the test of app_no_console made first
ChildStdioNoConsoleFirst ==
    IF cfg.app_no_console THEN "null"
    ELSE IF IsSome(cfg.app_stdout) \/ IsSome(cfg.app_stderr) THEN "piped"
    ELSE "inherit"

\* the Stdio given to cmd.stdout and cmd.stderr; a Command inherits both
\* streams when neither is set
ChildStdio ==
    IF IsSome(cfg.app_stdout) \/ IsSome(cfg.app_stderr) THEN "piped"
    ELSE IF cfg.app_no_console THEN "null"
    ELSE "inherit"

\* a freshly spawned child with its tailer threads; exited_at is the
\* supervisor's clock at the moment the child process ends
NewChild ==
    [status |-> "running",
     code   |-> None,
     exited_at |-> None,
     args   |-> ChildArgs,
     stdio  |-> ChildStdio,
     stdout |-> IF Piped THEN "running" ELSE "none",
     stderr |-> IF Piped THEN "running" ELSE "none"]

\* Spawn reached without the `if let Some(delay_until) = restart_after` block
SpawnBeforeDeadline ==
    /\ pc = "outer"
    /\ Len(procs) < MaxSpawns
    /\ \/ /\ cfg.application # ""
          /\ procs' = Append(procs, NewChild)
          /\ now' = 0
          /\ start_time' = now'
          /\ polls' = 0
          /\ pc' = "monitor"
          /\ UNCHANGED service_exit_code
       \/ /\ service_exit_code' = ServiceSpecific(1)
          /\ pc' = "set_stopped"
          /\ UNCHANGED <<procs, now, start_time, polls>>
    /\ UNCHANGED <<result, error_from, registry, cli, files, tail, config, scmVars,
                   shutdown_seen, published, restart_after, consecutive_failures,
                   stage_start, stop_actions>>

\* Spawn preceded by a fresh load_service_config at the head of the iteration
SpawnReloading ==
    /\ pc = "outer"
    /\ restart_after = None
    /\ Len(procs) < MaxSpawns
    /\ LET c == IF registry = None THEN cfg ELSE LoadServiceConfig(Unwrap(registry))
           piped == IsSome(c.app_stdout) \/ IsSome(c.app_stderr)
       IN  /\ config' = Some(c)
           /\ \/ /\ c.application # ""
                 /\ procs' = Append(procs,
                        [NewChild EXCEPT
                           !.args = IF IsSome(c.app_parameters)
                                    THEN parse_command_line(Unwrap(c.app_parameters))
                                    ELSE <<>>,
                           !.stdio = IF piped THEN "piped"
                                     ELSE IF c.app_no_console THEN "null"
                                     ELSE "inherit",
                           !.stdout = IF piped THEN "running" ELSE "none",
                           !.stderr = IF piped THEN "running" ELSE "none"])
                 /\ now' = 0
                 /\ start_time' = now'
                 /\ polls' = 0
                 /\ pc' = "monitor"
                 /\ UNCHANGED service_exit_code
              \/ /\ service_exit_code' = ServiceSpecific(1)
                 /\ pc' = "set_stopped"
                 /\ UNCHANGED <<procs, now, start_time, polls>>
    /\ UNCHANGED <<result, error_from, registry, cli, files, tail, scmVars, shutdown_seen,
                   published, restart_after, consecutive_failures,
                   stage_start, stop_actions>>

\* cmd.spawn(), the start of the tailers and `start_time = Instant::now()`.
\* The code compares Instants only by their difference and none is live here
\* (restart_after is None), so the origin of the clock is moved to the launch.
Spawn ==
    /\ pc = "outer"
    /\ restart_after = None
    /\ Len(procs) < MaxSpawns
    /\ \/ /\ cfg.application # ""
          /\ procs' = Append(procs, NewChild)
          /\ now' = 0
          /\ start_time' = now'
          /\ polls' = 0
          /\ pc' = "monitor"
          /\ UNCHANGED service_exit_code
       \/ /\ service_exit_code' = ServiceSpecific(1)
          /\ pc' = "set_stopped"
          /\ UNCHANGED <<procs, now, start_time, polls>>
    /\ UNCHANGED <<result, error_from, registry, cli, files, tail, config, scmVars, shutdown_seen,
                   published, restart_after, consecutive_failures,
                   stage_start, stop_actions>>

\* the recv_timeout at the head of the 'inner loop
MonitorRecv ==
    /\ pc = "monitor"
    /\ CASE RecvOutcome = "Ok" ->
                /\ chan' = chan - 1
                /\ shutdown_seen' = "Monitoring"
                /\ pc' = "set_stop_pending"
                /\ UNCHANGED now
          [] RecvOutcome = "Disconnected" ->
                /\ shutdown_seen' = "Monitoring"
                /\ pc' = "set_stop_pending"
                /\ UNCHANGED <<chan, now>>
          [] OTHER ->
                /\ now' = now + MonitorWakeMs
                /\ pc' = "probe"
                /\ UNCHANGED <<chan, shutdown_seen>>
    /\ UNCHANGED <<result, error_from, registry, cli, files, tail, config, handler, last_reply,
                   published, loopVars, procs, stop_actions>>

\* SetStopPending with the result of set_service_status dropped instead of `?`
SetStopPendingIgnoringErr ==
    /\ pc = "set_stop_pending"
    /\ pc' = "stop_console"
    /\ \/ published' = Append(published, Status("StopPending", NO_ERROR))
       \/ UNCHANGED published
    /\ UNCHANGED <<result, error_from, registry, cli, files, tail, config, scmVars, shutdown_seen,
                   loopVars, now, procs, stop_actions>>

\* status_handle.set_service_status(StopPending)?
SetStopPending ==
    /\ pc = "set_stop_pending"
    /\ \/ /\ published' = Append(published, Status("StopPending", NO_ERROR))
          /\ pc' = "stop_console"
          /\ UNCHANGED <<result, error_from>>
       \/ /\ ReturnErr("stop_pending")
          /\ UNCHANGED published
    /\ UNCHANGED <<registry, cli, files, tail, config, scmVars, shutdown_seen,
                   loopVars, now, procs, stop_actions>>

\* child.try_wait() / child.wait() observed the exit of child i: the OS
\* releases the process entry and its exit status
Reap(i) ==
    [procs EXCEPT ![i].status = "reaped", ![i].code = None, ![i].exited_at = None]

\* should_restart whose Restart arm restarts only after a non-zero exit code
should_restart_on_failure(exit_code, exit_action) ==
    CASE exit_action = "Restart" -> exit_code # 0
      [] exit_action = "Ignore"  -> FALSE
      [] exit_action = "Exit"    -> FALSE

\* should_restart with the Exit arm yielding true
should_restart_exit_restarts(exit_code, exit_action) ==
    CASE exit_action = "Restart" -> TRUE
      [] exit_action = "Ignore"  -> FALSE
      [] exit_action = "Exit"    -> TRUE

\* should_restart
should_restart(exit_code, exit_action) ==
    CASE exit_action = "Restart" -> TRUE
      [] exit_action = "Ignore"  -> FALSE
      [] exit_action = "Exit"    -> FALSE

\* `exit_code as u32`: the value is kept for the codes 0..2^31-1, the only ones
\* the model draws (a negative i32 would wrap to c + 2^32)
AsU32(c) == IF c >= 0 THEN c ELSE c + 2147483647 + 2147483647 + 2

\* ThrottleFailures without the reset of the healthy branch
ThrottleFailuresKept(runtime) ==
    IF runtime < cfg.app_throttle THEN consecutive_failures + 1 ELSE consecutive_failures

\* the throttle branch of the restart decision: the new failure count
ThrottleFailures(runtime) ==
    IF runtime < cfg.app_throttle THEN consecutive_failures + 1 ELSE 0

\* ThrottleDelay without the cap of the exponent and of the delay
ThrottleDelayUncapped(runtime) ==
    IF runtime < cfg.app_throttle
    THEN Pow2(consecutive_failures + 1) * 1000
    ELSE cfg.app_restart_delay

\* ThrottleDelay computed from the failure count before its increment
ThrottleDelayBeforeIncrement(runtime) ==
    IF runtime < cfg.app_throttle
    THEN Min(Pow2(Min(consecutive_failures, ThrottleMaxExp)) * 1000, ThrottleMaxMs)
    ELSE cfg.app_restart_delay

\* the throttle branch of the restart decision: the delay in ms
ThrottleDelay(runtime) ==
    IF runtime < cfg.app_throttle
    THEN Min(Pow2(Min(consecutive_failures + 1, ThrottleMaxExp)) * 1000, ThrottleMaxMs)
    ELSE cfg.app_restart_delay

\* ScheduleRestart without the test for a positive delay
ScheduleRestartAlways(delay) == Some(now + delay)

\* `if throttle_delay.as_millis() > 0 { restart_after = Some(now + delay) }`
ScheduleRestart(delay) ==
    IF delay > 0 THEN Some(now + delay) ELSE restart_after

\* ProbeRunning with `break 'inner` instead of `continue 'inner`
ProbeRunningRestarting ==
    /\ pc = "probe"
    /\ procs[child].status = "running"
    /\ polls < MaxPolls
    /\ polls' = polls + 1
    /\ pc' = "join_stdout"
    /\ UNCHANGED <<result, error_from, registry, cli, files, tail, config, scmVars, shutdown_seen,
                   published, service_exit_code, restart_after, consecutive_failures,
                   now, start_time, stage_start, procs, stop_actions>>

\* check_process_status: Ok(ProcessStatus::Running)
ProbeRunning ==
    /\ pc = "probe"
    /\ procs[child].status = "running"
    /\ polls < MaxPolls
    /\ polls' = polls + 1
    /\ pc' = "monitor"
    /\ UNCHANGED <<result, error_from, registry, cli, files, tail, config, scmVars, shutdown_seen,
                   published, service_exit_code, restart_after, consecutive_failures,
                   now, start_time, stage_start, procs, stop_actions>>

\* check_process_status: Ok(ProcessStatus::Exited(exit_code))
ProbeExited ==
    /\ pc = "probe"
    /\ procs[child].status = "exited"
    /\ IsSome(procs[child].code)
    /\ LET exit_code == Unwrap(procs[child].code)
           runtime == now - start_time
       IN  /\ procs' = Reap(child)
           /\ service_exit_code' = IF exit_code = 0 THEN NO_ERROR
                                   ELSE ServiceSpecific(AsU32(exit_code))
           /\ IF should_restart(exit_code, cfg.app_exit_default)
              THEN /\ consecutive_failures' = ThrottleFailures(runtime)
                   /\ restart_after' = ScheduleRestart(ThrottleDelay(runtime))
                   /\ pc' = "join_stdout"
              ELSE /\ pc' = "set_stopped"
                   /\ UNCHANGED <<consecutive_failures, restart_after>>
    /\ UNCHANGED <<result, error_from, registry, cli, files, tail, config, scmVars, shutdown_seen,
                   published, now, start_time, stage_start, polls, stop_actions>>

\* ProbeTerminated that also publishes Running with the STILL_ACTIVE code
ProbeTerminatedRepublishing ==
    /\ pc = "probe"
    /\ procs[child].status = "exited"
    /\ procs[child].code = None
    /\ procs' = Reap(child)
    /\ service_exit_code' = ServiceSpecific(StillActive)
    /\ published' = Append(published, Status("Running", ServiceSpecific(StillActive)))
    /\ restart_after' = ScheduleRestart(cfg.app_throttle)
    /\ pc' = "join_stdout"
    /\ UNCHANGED <<result, error_from, registry, cli, files, tail, config, scmVars, shutdown_seen,
                   consecutive_failures, now, start_time, stage_start,
                   polls, stop_actions>>

\* ProbeTerminated that restarts only if should_restart allows it
ProbeTerminatedByPolicy ==
    /\ pc = "probe"
    /\ procs[child].status = "exited"
    /\ procs[child].code = None
    /\ procs' = Reap(child)
    /\ service_exit_code' = ServiceSpecific(StillActive)
    /\ IF should_restart(StillActive, cfg.app_exit_default)
       THEN /\ restart_after' = ScheduleRestart(cfg.app_throttle)
            /\ pc' = "join_stdout"
       ELSE /\ pc' = "set_stopped"
            /\ UNCHANGED restart_after
    /\ UNCHANGED <<result, error_from, registry, cli, files, tail, config, scmVars, shutdown_seen,
                   published, consecutive_failures, now, start_time, stage_start,
                   polls, stop_actions>>

\* check_process_status: Ok(ProcessStatus::Terminated)
ProbeTerminated ==
    /\ pc = "probe"
    /\ procs[child].status = "exited"
    /\ procs[child].code = None
    /\ procs' = Reap(child)
    /\ service_exit_code' = ServiceSpecific(StillActive)
    /\ restart_after' = ScheduleRestart(cfg.app_throttle)
    /\ pc' = "join_stdout"
    /\ UNCHANGED <<result, error_from, registry, cli, files, tail, config, scmVars, shutdown_seen,
                   published, consecutive_failures, now, start_time, stage_start,
                   polls, stop_actions>>

\* ProbeFailed without the assignment of ServiceSpecific(1)
ProbeFailedKeepingCode ==
    /\ pc = "probe"
    /\ pc' = "set_stopped"
    /\ UNCHANGED <<result, error_from, registry, cli, files, tail, config, scmVars, shutdown_seen,
                   published, loopVars, now, procs, stop_actions>>

\* check_process_status: Err(e)
ProbeFailed ==
    /\ pc = "probe"
    /\ service_exit_code' = ServiceSpecific(1)
    /\ pc' = "set_stopped"
    /\ UNCHANGED <<result, error_from, registry, cli, files, tail, config, scmVars, shutdown_seen,
                   published, restart_after, consecutive_failures, now, start_time,
                   stage_start, polls, procs, stop_actions>>

\* JoinStdout that drops the thread handle instead of joining it
JoinStdoutDetached ==
    /\ pc = "join_stdout"
    /\ procs' = IF procs[child].stdout = "finished"
                THEN [procs EXCEPT ![child].stdout = "joined"]
                ELSE procs
    /\ pc' = "join_stderr"
    /\ UNCHANGED <<result, error_from, registry, cli, files, tail, config, scmVars, shutdown_seen,
                   published, loopVars, now, stop_actions>>

\* `if let Some(thread) = stdout_thread { let _ = thread.join(); }`
JoinStdout ==
    /\ pc = "join_stdout"
    /\ procs[child].stdout \in {"none", "finished"}
    /\ procs' = IF procs[child].stdout = "finished"
                THEN [procs EXCEPT ![child].stdout = "joined"]
                ELSE procs
    /\ pc' = "join_stderr"
    /\ UNCHANGED <<result, error_from, registry, cli, files, tail, config, scmVars, shutdown_seen,
                   published, loopVars, now, stop_actions>>

\* `if let Some(thread) = stderr_thread { let _ = thread.join(); }`
JoinStderr ==
    /\ pc = "join_stderr"
    /\ procs[child].stderr \in {"none", "finished"}
    /\ procs' = IF procs[child].stderr = "finished"
                THEN [procs EXCEPT ![child].stderr = "joined"]
                ELSE procs
    /\ pc' = "outer"
    /\ UNCHANGED <<result, error_from, registry, cli, files, tail, config, scmVars, shutdown_seen,
                   published, loopVars, now, stop_actions>>

\* status_handle.set_service_status(Stopped)?; Ok(())
SetStopped ==
    /\ pc = "set_stopped"
    /\ pc' = "returned"
    /\ \/ /\ published' = Append(published, Status("Stopped", service_exit_code))
          /\ result' = "Ok"
          /\ UNCHANGED error_from
       \/ /\ result' = "Err"
          /\ error_from' = "stopped"
          /\ UNCHANGED published
    /\ UNCHANGED <<registry, cli, files, tail, config, scmVars, shutdown_seen,
                   loopVars, now, procs, stop_actions>>

---------------------------------------------------------------------------
(* stop_child_process: the stop ladder *)

\* the child is made to exit with KilledCode, if it is still running
Killed(i) ==
    IF procs[i].status = "running"
    THEN [procs EXCEPT ![i].status = "exited", ![i].code = Some(KilledCode),
                       ![i].exited_at = Some(now)]
    ELSE procs

\* StageWait whose loop is left by `break` instead of `return` when the child
\* is found exited
StageWaitBreaking(stage, timeout, next) ==
    /\ pc = stage
    /\ IF now - stage_start < timeout
       THEN \/ /\ procs[child].status = "running"
               /\ now' = now + StopPollMs
               /\ UNCHANGED <<pc, procs>>
            \/ /\ procs[child].status = "exited"
               /\ procs' = Reap(child)
               /\ pc' = next
               /\ UNCHANGED now
            \/ /\ pc' = "stop_return"
               /\ UNCHANGED <<now, procs>>
       ELSE /\ pc' = next
            /\ UNCHANGED <<now, procs>>
    /\ UNCHANGED <<result, error_from, registry, cli, files, tail, config, scmVars, shutdown_seen,
                   published, loopVars, stop_actions>>

\* one turn of a stage's polled wait: `while start.elapsed() < timeout { .. }`
StageWait(stage, timeout, next) ==
    /\ pc = stage
    /\ IF now - stage_start < timeout
       THEN \/ /\ procs[child].status = "running"      \* Ok(Running): sleep 50 ms
               /\ now' = now + StopPollMs
               /\ UNCHANGED <<pc, procs>>
            \/ /\ procs[child].status = "exited"       \* Exited or Terminated: return
               /\ procs' = Reap(child)
               /\ pc' = "stop_return"
               /\ UNCHANGED now
            \/ /\ pc' = "stop_return"                  \* Err(e): return
               /\ UNCHANGED <<now, procs>>
       ELSE /\ pc' = next
            /\ UNCHANGED <<now, procs>>
    /\ UNCHANGED <<result, error_from, registry, cli, files, tail, config, scmVars, shutdown_seen,
                   published, loopVars, stop_actions>>

\* StopConsole without the test of app_no_console
StopConsoleIgnoringNoConsole ==
    /\ pc = "stop_console"
    /\ IF ~BitSet(cfg.app_stop_method_skip, 1)
       THEN /\ stop_actions' = Append(stop_actions, "console")
            /\ stage_start' = now
            /\ pc' = "wait_console"
       ELSE /\ pc' = "stop_window"
            /\ UNCHANGED <<stop_actions, stage_start>>
    /\ UNCHANGED <<result, error_from, registry, cli, files, tail, config, scmVars, shutdown_seen,
                   published, service_exit_code, restart_after, consecutive_failures,
                   now, start_time, polls, procs>>

\* stage 1: GenerateConsoleCtrlEvent(CTRL_C_EVENT)
StopConsole ==
    /\ pc = "stop_console"
    /\ IF ~cfg.app_no_console /\ ~BitSet(cfg.app_stop_method_skip, 1)
       THEN /\ stop_actions' = Append(stop_actions, "console")
            /\ stage_start' = now
            /\ pc' = "wait_console"
       ELSE /\ pc' = "stop_window"
            /\ UNCHANGED <<stop_actions, stage_start>>
    /\ UNCHANGED <<result, error_from, registry, cli, files, tail, config, scmVars, shutdown_seen,
                   published, service_exit_code, restart_after, consecutive_failures,
                   now, start_time, polls, procs>>

WaitConsole == StageWait("wait_console", cfg.app_stop_method_console, "stop_window")

\* stage 2: WM_CLOSE to the child's top-level windows
StopWindow ==
    /\ pc = "stop_window"
    /\ IF ~BitSet(cfg.app_stop_method_skip, 2)
       THEN /\ stop_actions' = Append(stop_actions, "window")
            /\ stage_start' = now
            /\ pc' = "wait_window"
       ELSE /\ pc' = "stop_terminate"
            /\ UNCHANGED <<stop_actions, stage_start>>
    /\ UNCHANGED <<result, error_from, registry, cli, files, tail, config, scmVars, shutdown_seen,
                   published, service_exit_code, restart_after, consecutive_failures,
                   now, start_time, polls, procs>>

WaitWindow == StageWait("wait_window", cfg.app_stop_method_window, "stop_terminate")

\* stage 3: OpenProcess(PROCESS_TERMINATE) and TerminateProcess(handle, 1)
StopTerminate ==
    /\ pc = "stop_terminate"
    /\ IF ~BitSet(cfg.app_stop_method_skip, 4)
       THEN /\ stop_actions' = Append(stop_actions, "terminate")
            /\ stage_start' = now
            /\ pc' = "wait_threads"
            /\ \/ procs' = Killed(child)
               \/ UNCHANGED procs                     \* the call failed
       ELSE /\ pc' = "stop_kill"
            /\ UNCHANGED <<stop_actions, stage_start, procs>>
    /\ UNCHANGED <<result, error_from, registry, cli, files, tail, config, scmVars, shutdown_seen,
                   published, service_exit_code, restart_after, consecutive_failures,
                   now, start_time, polls>>

WaitThreads == StageWait("wait_threads", cfg.app_stop_method_threads, "stop_kill")

\* StopKill without the test of bit 8 of app_stop_method_skip
StopKillUnconditional ==
    /\ pc = "stop_kill"
    /\ pc' = "stop_wait"
    /\ stop_actions' = Append(stop_actions, "kill")
    /\ \/ procs' = Killed(child)
       \/ UNCHANGED procs
    /\ UNCHANGED <<result, error_from, registry, cli, files, tail, config, scmVars, shutdown_seen,
                   published, loopVars, now>>

\* stage 4: child.kill()
StopKill ==
    /\ pc = "stop_kill"
    /\ pc' = "stop_wait"
    /\ IF ~BitSet(cfg.app_stop_method_skip, 8)
       THEN /\ stop_actions' = Append(stop_actions, "kill")
            /\ \/ procs' = Killed(child)
               \/ UNCHANGED procs                     \* Err(e): warn
       ELSE UNCHANGED <<stop_actions, procs>>
    /\ UNCHANGED <<result, error_from, registry, cli, files, tail, config, scmVars, shutdown_seen,
                   published, loopVars, now>>

\* `let _ = child.wait();` blocks until the child has exited
StopWait ==
    /\ pc = "stop_wait"
    /\ procs[child].status = "exited"
    /\ procs' = Reap(child)
    /\ pc' = "stop_return"
    /\ UNCHANGED <<result, error_from, registry, cli, files, tail, config, scmVars, shutdown_seen,
                   published, loopVars, now, stop_actions>>

\* StopReturn that joins the tailer threads before leaving the loop
StopReturnJoining ==
    /\ pc = "stop_return"
    /\ procs[child].stdout \in {"none", "finished", "joined"}
    /\ procs[child].stderr \in {"none", "finished", "joined"}
    /\ service_exit_code' = NO_ERROR
    /\ pc' = "set_stopped"
    /\ UNCHANGED <<result, error_from, registry, cli, files, tail, config, scmVars, shutdown_seen,
                   published, restart_after, consecutive_failures, now, start_time,
                   stage_start, polls, procs, stop_actions>>

\* back in run_service_main: service_exit_code = NO_ERROR; break 'outer
StopReturn ==
    /\ pc = "stop_return"
    /\ service_exit_code' = NO_ERROR
    /\ pc' = "set_stopped"
    /\ UNCHANGED <<result, error_from, registry, cli, files, tail, config, scmVars, shutdown_seen,
                   published, restart_after, consecutive_failures, now, start_time,
                   stage_start, polls, procs, stop_actions>>

---------------------------------------------------------------------------
(* The environment: SCM, child process, tailer threads *)

\* exit codes a child returns of its own accord
ExitCodes == {0, 7}

\* ControlHandler over a channel of capacity one whose send waits for room
ControlHandlerBoundedChannel(control_event) ==
    /\ handler \in {"registered", "stop_delivered"}
    /\ CASE control_event = "Interrogate" ->
                /\ last_reply' = "NoError"
                /\ UNCHANGED <<chan, handler>>
          [] control_event \in {"Stop", "Shutdown"} ->
                /\ chan < 1
                /\ chan' = IF pc # "returned" THEN chan + 1 ELSE chan
                /\ handler' = "stop_delivered"
                /\ last_reply' = "NoError"
          [] OTHER ->
                /\ last_reply' = "NotImplemented"
                /\ UNCHANGED <<chan, handler>>
    /\ UNCHANGED <<pc, result, error_from, registry, cli, files, tail, config, shutdown_seen,
                   published, loopVars, now, procs, stop_actions>>

\* the event_handler closure called by the SCM dispatcher
ControlHandler(control_event) ==
    /\ handler \in {"registered", "stop_delivered"}
    /\ CASE control_event = "Interrogate" ->
                /\ last_reply' = "NoError"
                /\ UNCHANGED <<chan, handler>>
          [] control_event \in {"Stop", "Shutdown"} ->
                /\ chan < MaxSends
                \* shutdown_tx.send(()) is Err once the receiver is dropped
                /\ chan' = IF pc # "returned" THEN chan + 1 ELSE chan
                /\ handler' = "stop_delivered"
                /\ last_reply' = "NoError"
          [] OTHER ->
                /\ last_reply' = "NotImplemented"
                /\ UNCHANGED <<chan, handler>>
    /\ UNCHANGED <<pc, result, error_from, registry, cli, files, tail, config, shutdown_seen,
                   published, loopVars, now, procs, stop_actions>>

ControlEvents == {"Interrogate", "Stop", "Shutdown", "Pause"}

\* the dispatcher drops the closure, and shutdown_tx with it, after a stop control
ReleaseHandler ==
    /\ handler = "stop_delivered"
    /\ handler' = "released"
    /\ UNCHANGED <<pc, result, error_from, registry, cli, files, tail, config, last_reply, chan,
                   shutdown_seen, published, loopVars, now, procs, stop_actions>>

\* a running child exits: with a code, or without one
ChildExit(i, code) ==
    /\ procs[i].status = "running"
    /\ procs' = [procs EXCEPT ![i].status = "exited", ![i].code = code,
                              ![i].exited_at = Some(now)]
    /\ UNCHANGED <<pc, result, error_from, registry, cli, files, tail, config, scmVars, shutdown_seen,
                   published, loopVars, now, stop_actions>>

\* handle_stdout / handle_stderr reach EOF: the child's end of the pipe is closed
TailerEof(i, stream) ==
    /\ procs[i][stream] = "running"
    /\ procs[i].status # "running"
    /\ procs' = [procs EXCEPT ![i][stream] = "finished"]
    /\ UNCHANGED <<pc, result, error_from, registry, cli, files, tail, config, scmVars, shutdown_seen,
                   published, loopVars, now, stop_actions>>

\* handle_stdout / handle_stderr break out on a read, open or write error
TailerError(i, stream) ==
    /\ procs[i][stream] = "running"
    /\ procs[i].status = "running"
    /\ procs' = [procs EXCEPT ![i][stream] = "finished"]
    /\ UNCHANGED <<pc, result, error_from, registry, cli, files, tail, config, scmVars, shutdown_seen,
                   published, loopVars, now, stop_actions>>

Streams == {"stdout", "stderr"}

---------------------------------------------------------------------------

Next ==
    \/ RegisterHandler
    \/ NewServiceManager
    \/ LoadConfig
    \/ SetRunning
    \/ BackoffRecv
    \/ DelayComplete
    \/ Spawn
    \/ MonitorRecv
    \/ SetStopPending
    \/ ProbeRunning
    \/ ProbeExited
    \/ ProbeTerminated
    \/ ProbeFailed
    \/ JoinStdout
    \/ JoinStderr
    \/ StopConsole
    \/ WaitConsole
    \/ StopWindow
    \/ WaitWindow
    \/ StopTerminate
    \/ WaitThreads
    \/ StopKill
    \/ StopWait
    \/ StopReturn
    \/ SetStopped
    \/ \E ev \in ControlEvents : ControlHandler(ev)
    \/ ReleaseHandler
    \/ \E i \in 1..Len(procs), c \in {Some(x) : x \in ExitCodes} \cup {None} : ChildExit(i, c)
    \/ \E i \in 1..Len(procs), st \in Streams : TailerEof(i, st)
    \/ \E i \in 1..Len(procs), st \in Streams : TailerError(i, st)

Spec == Init /\ [][Next]_vars

---------------------------------------------------------------------------
(* Properties of the SCM status protocol and of the child's lifecycle *)

\* the states published so far
States == [i \in 1..Len(published) |-> published[i].current_state]

Published(state) == \E i \in 1..Len(published) : States[i] = state

Count(state) == Cardinality({i \in 1..Len(published) : States[i] = state})

\* children spawned and not yet reaped
Alive == {i \in 1..Len(procs) : procs[i].status # "reaped"}

\* C1: when the loop was left because the shutdown channel yielded, in
\* Monitoring or in Backoff, the Stopped status carries NO_ERROR.
C1_ShutdownStopsWithNoError ==
    \A i \in 1..Len(published) :
        (States[i] = "Stopped" /\ shutdown_seen # "none")
            => published[i].exit_code = NO_ERROR

\* C2: once the shutdown channel has yielded a value or a disconnection, no
\* further child is spawned.
C2_NoSpawnAfterShutdown ==
    [][shutdown_seen # "none" => Len(procs') = Len(procs)]_vars

C2_Witness ==
    /\ shutdown_seen = "Backoff"
    /\ pc = "returned"
    /\ Len(procs) = 1
    /\ handler = "released"

\* C3: every invocation that has returned, by Ok or by an error, has published
\* Stopped exactly once, and exactly once after any StopPending.
C3_StoppedExactlyOnce ==
    pc = "returned" =>
        /\ Count("Stopped") = 1
        /\ \A i \in 1..Len(published) :
               States[i] = "StopPending" =>
                   Cardinality({j \in (i+1)..Len(published) : States[j] = "Stopped"}) = 1

\* C4: a shutdown received in Monitoring or in Backoff goes through Stopping:
\* StopPending is published after the receive and before Stopped.
C4_ShutdownPublishesStopPending ==
    /\ Published("StopPending") => shutdown_seen # "none"
    /\ \A i \in 1..Len(published) :
           (States[i] = "Stopped" /\ shutdown_seen # "none")
               => \E j \in 1..(i-1) : States[j] = "StopPending"

\* C5: Stopped is published only after every child of the invocation, the
\* last one included, has been reaped.
C5_StoppedAfterReap ==
    Published("Stopped") => Alive = {}

\* C6: Stopped is published only after both tailers of the last child have
\* been joined.
C6_StoppedAfterJoin ==
    (Published("Stopped") /\ procs # <<>>) =>
        /\ procs[child].stdout \in {"none", "joined"}
        /\ procs[child].stderr \in {"none", "joined"}

\* positions of the supervisor inside stop_child_process
LadderPcs == {"stop_console", "wait_console", "stop_window", "wait_window",
              "stop_terminate", "wait_threads", "stop_kill", "stop_wait",
              "stop_return"}

\* C7: the stop ladder is entered, and any of its actions performed, only
\* after StopPending has been published.
C7_StopPendingBeforeLadder ==
    (pc \in LadderPcs \/ stop_actions # <<>>) => Published("StopPending")

C7_Witness ==
    /\ stop_actions = <<"console", "window", "terminate", "kill">>
    /\ States = <<"Running", "StopPending">>

\* C8: the published statuses are Running first, then at most one
\* StopPending, then Stopped last; Running is not published again.
C8_StatusOrder ==
    /\ published # <<>> => States[1] = "Running"
    /\ \A i \in 2..Len(published) : States[i] # "Running"
    /\ \A i \in 1..Len(published) : States[i] = "Stopped" => i = Len(published)
    /\ Count("StopPending") <= 1

C8_Witness ==
    /\ States = <<"Running", "StopPending", "Stopped">>
    /\ Len(procs) = 2

\* C9: Running is published before any child is spawned and before the
\* supervisor first waits on the shutdown channel; a failure of the handler
\* registration, of the configuration load or of the Running publication
\* returns the error with no child spawned.
C9_RunningBeforeSpawn ==
    /\ (procs # <<>> \/ pc \in {"outer", "monitor", "probe"})
           => (published # <<>> /\ States[1] = "Running")
    /\ error_from \in {"register", "manager", "config", "running"}
           => (pc = "returned" /\ result = "Err" /\ procs = <<>>)

C9_Witness ==
    /\ pc = "monitor"
    /\ Len(procs) = 1
    /\ States = <<"Running">>

\* C10: at most one spawned child is not yet reaped.
C10_OneChildAlive ==
    Cardinality(Alive) <= 1

C10_Witness ==
    /\ Len(procs) = 2
    /\ procs[1].status = "reaped"
    /\ procs[2].status = "running"

---------------------------------------------------------------------------
(* Properties of the restart decision *)

\* the supervisor's probe saw the current child exited with code c and reaped it
ExitedStep(c) ==
    /\ pc = "probe"
    /\ procs[child].status = "exited"
    /\ procs[child].code = Some(c)
    /\ procs'[child].status = "reaped"

\* after `break 'outer`: nothing is spawned, the exit code is kept, and the only
\* status still published is Stopped with service_exit_code
LoopLeft ==
    /\ pc = "set_stopped" =>
           /\ pc' \in {"set_stopped", "returned"}
           /\ Len(procs') = Len(procs)
           /\ service_exit_code' = service_exit_code
           /\ published' # published =>
                  published' = Append(published, Status("Stopped", service_exit_code))
    /\ pc = "returned" =>
           /\ pc' = "returned"
           /\ Len(procs') = Len(procs)
           /\ published' = published

\* C11: when the child exits with code c and app_exit_default is Ignore or
\* Exit, the supervisor schedules no restart and leaves the loop with the exit
\* code NO_ERROR if c = 0 and ServiceSpecific(c) otherwise; it spawns nothing
\* after that, and the Stopped status it publishes carries that code.
C11_NoRestartOnIgnoreOrExit ==
    [][ /\ \A c \in ExitCodes :
              (ExitedStep(c) /\ cfg.app_exit_default \in {"Ignore", "Exit"}) =>
                  /\ pc' = "set_stopped"
                  /\ restart_after' = None
                  /\ service_exit_code' = IF c = 0 THEN NO_ERROR ELSE ServiceSpecific(c)
        /\ LoopLeft ]_vars

C11_Witness ==
    /\ pc = "returned"
    /\ config # None
    /\ cfg.app_exit_default = "Ignore"
    /\ shutdown_seen = "none"
    /\ Len(procs) = 1
    /\ published = <<Status("Running", NO_ERROR), Status("Stopped", ServiceSpecific(7))>>

---------------------------------------------------------------------------
(* The supervision loop deep in a crash loop, with no control arriving: the
   supervisor has seen n consecutive unhealthy exits, the backoff after the
   last of them has elapsed, and child n + 1 has just been launched. *)

\* Parameters keys of a service that is always restarted
ThrottleKeys ==
    { [Application |-> "app.exe", AppThrottle |-> t, AppRestartDelay |-> d] :
        t \in {0, 1500}, d \in {0, 200, 300000} }

\* a child of an earlier iteration, reaped, started without redirection
ReapedChild ==
    [status |-> "reaped", code |-> None, exited_at |-> None, args |-> <<>>,
     stdio |-> "inherit",
     stdout |-> "none", stderr |-> "none"]

InitThrottle ==
    /\ pc = "monitor"
    /\ result = "none"
    /\ error_from = "none"
    /\ registry \in { Some(k) : k \in ThrottleKeys }
    /\ cli = None
    /\ files = None
    /\ tail = None
    /\ config = Some(LoadServiceConfig(Unwrap(registry)))
    /\ handler = "registered"
    /\ last_reply = "none"
    /\ chan = 0
    /\ shutdown_seen = "none"
    /\ published = <<Status("Running", NO_ERROR)>>
    /\ consecutive_failures \in 0..MaxFailures
    /\ service_exit_code = IF consecutive_failures = 0 THEN NO_ERROR
                           ELSE ServiceSpecific(7)
    /\ restart_after = None
    /\ now = 0
    /\ start_time = 0
    /\ stage_start = 0
    /\ polls = 0
    /\ procs = [i \in 1..(consecutive_failures + 1) |->
                  IF i <= consecutive_failures
                  THEN ReapedChild
                  ELSE [ReapedChild EXCEPT !.status = "running"]]
    /\ stop_actions = <<>>

NextThrottle ==
    \/ BackoffRecv
    \/ DelayComplete
    \/ Spawn
    \/ MonitorRecv
    \/ ProbeRunning
    \/ ProbeExited
    \/ ProbeTerminated
    \/ JoinStdout
    \/ JoinStderr
    \/ SetStopped
    \/ \E c \in {Some(x) : x \in ExitCodes} \cup {None} : ChildExit(child, c)

SpecThrottle == InitThrottle /\ [][NextThrottle]_vars

\* the restart delays of consecutive unhealthy exits, in ms
ThrottleTable == <<2000, 4000, 8000, 16000, 32000, 64000, 128000, 256000>>

\* C12: under policy Restart, an exit after an uptime below app_throttle
\* increments consecutive_failures by one and schedules the restart after
\* min(2^min(n, 8) * 1000, 256000) ms, n being the incremented count: 2 s,
\* 4 s, 8 s, ... for n = 1, 2, 3, ... and 256000 ms for every n >= 8.
C12_ThrottleDoubling ==
    [][ \A c \in ExitCodes :
          ( /\ ExitedStep(c)
            /\ cfg.app_exit_default = "Restart"
            /\ now - start_time < cfg.app_throttle ) =>
              LET n == consecutive_failures'
              IN  /\ n = consecutive_failures + 1
                  /\ restart_after' = Some(now + Min(Pow2(Min(n, 8)) * 1000, 256000))
                  /\ restart_after' = Some(now + ThrottleTable[Min(n, 8)]) ]_vars

C12_Witness ==
    /\ pc = "join_stdout"
    /\ consecutive_failures = MaxFailures + 1
    /\ restart_after = Some(now + 256000)

\* C13: consecutive_failures changes only when the supervisor handles an exit
\* under the restart policy; it decreases only at a healthy exit (uptime >=
\* app_throttle), where it becomes 0 and the restart delay is
\* app_restart_delay. Spawn, backoff, a terminated child and shutdown leave it.
C13_FailuresResetOnlyWhenHealthy ==
    [][ /\ consecutive_failures' # consecutive_failures =>
              /\ \E c \in ExitCodes : ExitedStep(c)
              /\ consecutive_failures' >= consecutive_failures
                     \/ (now - start_time >= cfg.app_throttle /\ consecutive_failures' = 0)
        /\ \A c \in ExitCodes :
              ( /\ ExitedStep(c)
                /\ cfg.app_exit_default = "Restart"
                /\ now - start_time >= cfg.app_throttle ) =>
                  /\ consecutive_failures' = 0
                  /\ restart_after' = IF cfg.app_restart_delay > 0
                                      THEN Some(now + cfg.app_restart_delay)
                                      ELSE None ]_vars

C13_Witness ==
    /\ pc = "join_stdout"
    /\ Len(procs) = 2
    /\ cfg.app_throttle = 1500
    /\ now - start_time >= cfg.app_throttle
    /\ consecutive_failures = 0
    /\ restart_after = Some(now + 200)

\* the supervisor's probe saw the current child gone without an exit code
TerminatedStep ==
    /\ pc = "probe"
    /\ procs[child].status = "exited"
    /\ procs[child].code = None
    /\ procs'[child].status = "reaped"

\* the supervisor decides to restart: `break 'inner`
RestartDecided == pc = "probe" /\ pc' = "join_stdout"

\* the throttle_delay of the decision taken in this step, read off restart_after
DelayScheduled == IF restart_after' = None THEN 0 ELSE Unwrap(restart_after') - now

\* {0, app_restart_delay} and the throttle steps 1000 * 2^k, k in 1..8
ThrottleSet == {0, cfg.app_restart_delay} \cup { 1000 * Pow2(k) : k \in 1..ThrottleMaxExp }

\* C14 as stated: every throttle delay computed for a restart is in
\* {0, app_restart_delay, 1000 * 2^k for k in 1..8}, and exceeds 256000 ms only
\* if app_restart_delay does.
C14_DelaysInThrottleSet ==
    [][ RestartDecided =>
          /\ DelayScheduled \in ThrottleSet
          /\ DelayScheduled <= 256000 \/ cfg.app_restart_delay > 256000 ]_vars

\* C14 amended: the delay computed after an exit with a code is in
\* {0, app_restart_delay, 1000 * 2^k for k in 1..8} and exceeds 256000 ms only
\* if app_restart_delay does; the delay computed after a child terminated
\* without an exit code is app_throttle.
C14_DelaysInThrottleSetOrAppThrottle ==
    [][ /\ \A c \in ExitCodes :
              (ExitedStep(c) /\ RestartDecided) =>
                  /\ DelayScheduled \in ThrottleSet
                  /\ DelayScheduled <= 256000 \/ cfg.app_restart_delay > 256000
        /\ (TerminatedStep /\ RestartDecided) => DelayScheduled = cfg.app_throttle ]_vars

C14_Witness ==
    /\ pc = "join_stdout"
    /\ service_exit_code = ServiceSpecific(StillActive)
    /\ cfg.app_throttle = 1500
    /\ restart_after = Some(now + 1500)

\* restart_after holds a deadline only while the last child is reaped
DeadlineAfterReap ==
    IsSome(restart_after') => (procs' # <<>> /\ procs'[Len(procs')].status = "reaped")

\* the supervisor handles an exit and decides not to restart
NotRestartDecided ==
    /\ \E c \in ExitCodes : ExitedStep(c)
    /\ pc' = "set_stopped"

---------------------------------------------------------------------------
(* Properties of the fatal failures *)

\* cmd.spawn() returned Err: the supervisor moved on with no child added
SpawnFailed ==
    /\ pc = "outer"
    /\ restart_after = None
    /\ pc' # "outer"
    /\ procs' = procs

\* check_process_status returned Err in the monitoring loop: the supervisor
\* moved on with the child as it was
MonitorProbeFailed ==
    /\ pc = "probe"
    /\ pc' # "probe"
    /\ procs' = procs
    /\ polls' = polls

\* C16: a failure of the spawn, or of the status probe of the monitoring
\* loop, makes the supervisor leave the loop with ServiceSpecific(1); it
\* spawns nothing after that and the Stopped it publishes carries that code.
C16_SpawnOrProbeFailureIsFatal ==
    [][ /\ (SpawnFailed \/ MonitorProbeFailed) =>
              /\ pc' = "set_stopped"
              /\ service_exit_code' = ServiceSpecific(1)
        /\ LoopLeft ]_vars

C16_Witness ==
    /\ pc = "returned"
    /\ published = <<Status("Running", NO_ERROR), Status("Stopped", ServiceSpecific(1))>>
    /\ Len(procs) = 1
    /\ procs[1].status = "running"

\* the Parameters key is absent, or holds no Application or an empty one
ConfigUnusable ==
    \/ registry = None
    \/ ~IsSome(GetRegistryValue(Unwrap(registry), "Application"))
    \/ GetRegistryValue(Unwrap(registry), "Application") = Some("")

\* C17: with the configuration absent, or its Application missing or empty,
\* Running is never published and no child is spawned, and once the handler is
\* registered and the invocation has returned, the one status published is
\* Stopped with ServiceSpecific(1).
C17_UnusableConfigStopsBeforeRunning ==
    ConfigUnusable =>
        /\ ~Published("Running")
        /\ procs = <<>>
        /\ (pc = "returned" /\ error_from \notin {"register", "manager"}) =>
               published = <<Status("Stopped", ServiceSpecific(1))>>

---------------------------------------------------------------------------
(* Properties of the control handler *)

\* C18: the handler replies NoError to Interrogate and sends nothing; it
\* replies NoError to Stop and to Shutdown after one send of the unit value,
\* which adds one value to the channel while the receiver exists; it replies
\* NotImplemented to any other control and sends nothing. Nothing else adds to
\* the channel. The handler is never blocked: while it is registered it can
\* run for every control, with values already queued and after the supervisor
\* has left its loop.
C18_ControlHandlerReplies ==
    /\ []( (handler \in {"registered", "stop_delivered"} /\ chan < MaxSends) =>
              \A ev \in ControlEvents : ENABLED ControlHandler(ev) )
    /\ [][ /\ ControlHandler("Interrogate") =>
                  (last_reply' = "NoError" /\ chan' = chan)
           /\ \A ev \in {"Stop", "Shutdown"} :
                  ControlHandler(ev) =>
                      /\ last_reply' = "NoError"
                      /\ chan' = IF pc # "returned" THEN chan + 1 ELSE chan
           /\ \A ev \in ControlEvents \ {"Interrogate", "Stop", "Shutdown"} :
                  ControlHandler(ev) =>
                      (last_reply' = "NotImplemented" /\ chan' = chan)
           /\ chan' > chan =>
                  (chan' = chan + 1 /\ last_reply' = "NoError" /\ pc' = pc)
           /\ last_reply' # last_reply => pc' = pc ]_vars

C18_Witness ==
    /\ chan = 2
    /\ last_reply = "NoError"
    /\ pc = "set_stopped"

---------------------------------------------------------------------------
(* Properties of the stop ladder *)

\* C19: with app_stop_method_skip = 15 the stop ladder sends no console
\* event and no window message, and neither terminates nor kills the child;
\* it enters no polled wait, and the only change its steps make to the child
\* is to reap it.
C19_SkipAllOnlyReaps ==
    /\ []( (config # None /\ cfg.app_stop_method_skip = 15) =>
              /\ stop_actions = <<>>
              /\ pc \notin {"wait_console", "wait_window", "wait_threads"} )
    /\ [][ (pc \in LadderPcs /\ pc' # pc /\ cfg.app_stop_method_skip = 15) =>
              (procs' = procs \/ procs' = Reap(child)) ]_vars

C19_Witness ==
    /\ pc = "returned"
    /\ config # None
    /\ cfg.app_stop_method_skip = 15
    /\ shutdown_seen = "Monitoring"
    /\ procs[1].status = "reaped"
    /\ States = <<"Running", "StopPending", "Stopped">>

\* the steps of the supervisor's thread
Supervisor ==
    \/ RegisterHandler
    \/ NewServiceManager
    \/ LoadConfig
    \/ SetRunning
    \/ BackoffRecv
    \/ DelayComplete
    \/ Spawn
    \/ MonitorRecv
    \/ SetStopPending
    \/ ProbeRunning
    \/ ProbeExited
    \/ ProbeTerminated
    \/ ProbeFailed
    \/ JoinStdout
    \/ JoinStderr
    \/ StopConsole
    \/ WaitConsole
    \/ StopWindow
    \/ WaitWindow
    \/ StopTerminate
    \/ WaitThreads
    \/ StopKill
    \/ StopWait
    \/ StopReturn
    \/ SetStopped

\* Parameters keys of a service that is not restarted, over every skip mask
LadderKeys ==
    { [Application |-> "app.exe", AppExitDefault |-> "Exit", AppNoConsole |-> n,
       AppStopMethodSkip |-> s, AppStopMethodConsole |-> t[1],
       AppStopMethodWindow |-> t[2], AppStopMethodThreads |-> t[3]] :
        n \in {0, 1}, s \in 0..15, t \in {<<50, 0, 50>>, <<0, 100, 50>>} }
    \cup { [Application |-> "app.exe", AppExitDefault |-> "Exit",
            AppStdout |-> "out.log", AppStopMethodSkip |-> s,
            AppStopMethodConsole |-> 50] : s \in {6, 14} }

\* the supervisor has published Running and has just launched its first child
InitLadder ==
    /\ pc = "monitor"
    /\ result = "none"
    /\ error_from = "none"
    /\ registry \in { Some(k) : k \in LadderKeys }
    /\ cli = None
    /\ files = None
    /\ tail = None
    /\ config = Some(LoadServiceConfig(Unwrap(registry)))
    /\ handler = "registered"
    /\ last_reply = "none"
    /\ chan = 0
    /\ shutdown_seen = "none"
    /\ published = <<Status("Running", NO_ERROR)>>
    /\ service_exit_code = NO_ERROR
    /\ restart_after = None
    /\ consecutive_failures = 0
    /\ now = 0
    /\ start_time = 0
    /\ stage_start = 0
    /\ polls = 0
    /\ procs = <<NewChild>>
    /\ stop_actions = <<>>

\* the monitoring of that child and its stop ladder
NextLadder ==
    \/ MonitorRecv
    \/ ProbeRunning
    \/ ProbeExited
    \/ ProbeFailed
    \/ SetStopPending
    \/ StopConsole
    \/ WaitConsole
    \/ StopWindow
    \/ WaitWindow
    \/ StopTerminate
    \/ WaitThreads
    \/ StopKill
    \/ StopWait
    \/ StopReturn
    \/ SetStopped
    \/ \E ev \in ControlEvents : ControlHandler(ev)
    \/ ReleaseHandler
    \/ \E c \in ExitCodes : ChildExit(child, Some(c))
    \/ \E st \in Streams : TailerEof(child, st)
    \/ \E st \in Streams : TailerError(child, st)

\* the supervisor's thread keeps being scheduled: it takes a step whenever it
\* stays able to; the SCM, the child and the tailers owe no step
FairLadderSpec == InitLadder /\ [][NextLadder]_vars /\ WF_vars(Supervisor)

\* C20 as stated: once the stop ladder has begun, whatever the skip mask and
\* whatever the child does, stop_child_process returns and the invocation
\* goes on to its end.
C20_LadderRunsToCompletion ==
    (pc \in LadderPcs) ~> (pc = "returned")

\* C20 amended: once the stop ladder has begun, its stages and polled waits
\* end and the supervisor reaches the final child.wait() or returns; it
\* returns, and the invocation goes on to its end, whenever the child is no
\* longer running.
C20_LadderReturnsOnceChildExited ==
    /\ (pc \in LadderPcs) ~>
           (pc = "returned" \/ (pc = "stop_wait" /\ procs[child].status = "running"))
    /\ (pc \in LadderPcs /\ procs[child].status # "running") ~> (pc = "returned")

C20_Witness ==
    /\ pc = "returned"
    /\ stop_actions = <<"console", "window", "terminate", "kill">>
    /\ procs[1].status = "reaped"
    /\ States = <<"Running", "StopPending", "Stopped">>

---------------------------------------------------------------------------
(* parse_command_line: the launch of the first child, over AppParameters
   strings kept as sequences of characters *)

\* the characters AppParameters is drawn from
ParamChars == {"a", "b", " ", "\t", "\""}

\* the strings over ParamChars of at most n characters
StringsUpTo(n) == UNION { [1..k -> ParamChars] : k \in 0..n }

\* "a b" in quotes followed by c, and "  a  b  "
QuotedExample == <<"\"", "a", " ", "b", "\"", " ", "c">>
PaddedExample == <<" ", " ", "a", " ", " ", "b", " ", " ">>

\* Parameters keys that vary AppParameters
ParseKeys ==
    { [Application |-> "app.exe", AppParameters |-> s] :
        s \in StringsUpTo(MaxParamLen) \cup {QuotedExample, PaddedExample} }

InitParse ==
    /\ pc = "register"
    /\ result = "none"
    /\ error_from = "none"
    /\ registry \in { Some(k) : k \in ParseKeys }
    /\ cli = None
    /\ files = None
    /\ tail = None
    /\ config = None
    /\ handler = "unregistered"
    /\ last_reply = "none"
    /\ chan = 0
    /\ shutdown_seen = "none"
    /\ published = <<>>
    /\ service_exit_code = NO_ERROR
    /\ restart_after = None
    /\ consecutive_failures = 0
    /\ now = 0
    /\ start_time = 0
    /\ stage_start = 0
    /\ polls = 0
    /\ procs = <<>>
    /\ stop_actions = <<>>

\* the entry of run_service_main up to the launch of the first child
NextParse ==
    \/ RegisterHandler
    \/ NewServiceManager
    \/ LoadConfig
    \/ SetRunning
    \/ Spawn

SpecParse == InitParse /\ [][NextParse]_vars

\* the AppParameters string stored in the registry
StoredParams == Unwrap(registry).AppParameters

\* character i of s is outside quotes: an even number of quotes precede it
Outside(s, i) == Cardinality({ j \in 1..(i - 1) : s[j] = "\"" }) % 2 = 0

\* character i of s ends a token
IsSeparator(s, i) == s[i] \in {" ", "\t"} /\ Outside(s, i)

\* the tokens of s from position b on: each stretch up to the next separator,
\* without its quotes, the empty ones dropped
RECURSIVE SplitFrom(_, _)
SplitFrom(s, b) ==
    IF b > Len(s) THEN <<>>
    ELSE LET seps == { i \in b..Len(s) : IsSeparator(s, i) }
             e == IF seps = {} THEN Len(s) + 1
                  ELSE CHOOSE i \in seps : \A j \in seps : i <= j
             token == SelectSeq(SubSeq(s, b, e - 1), LAMBDA ch : ch # "\"")
         IN  (IF token = <<>> THEN <<>> ELSE <<token>>) \o SplitFrom(s, e + 1)

\* the quoting split of s
QuotingSplit(s) == SplitFrom(s, 1)

\* C21: parse_command_line is the quoting split of its input; no token it
\* returns is empty or contains a double quote; split("") = [], split("a b") =
\* ["a","b"], the split of "a b" in quotes followed by c is ["a b","c"] and
\* split("  a  b  ") = ["a","b"]; the arguments given to the child are that
\* split of AppParameters.
C21_ParseIsQuotingSplit ==
    LET s == StoredParams
        r == parse_command_line(s)
    IN  /\ r = QuotingSplit(s)
        /\ \A i \in 1..Len(r) :
               r[i] # <<>> /\ \A k \in 1..Len(r[i]) : r[i][k] # "\""
        /\ s = <<>> => r = <<>>
        /\ s = <<"a", " ", "b">> => r = << <<"a">>, <<"b">> >>
        /\ s = QuotedExample => r = << <<"a", " ", "b">>, <<"c">> >>
        /\ s = PaddedExample => r = << <<"a">>, <<"b">> >>
        /\ procs # <<>> => procs[child].args = QuotingSplit(s)

C21_Witness ==
    /\ pc = "monitor"
    /\ StoredParams = QuotedExample
    /\ procs[child].args = << <<"a", " ", "b">>, <<"c">> >>

\* the tokens joined with single spaces
RECURSIVE Join(_)
Join(tokens) ==
    IF tokens = <<>> THEN <<>>
    ELSE IF Len(tokens) = 1 THEN tokens[1]
    ELSE tokens[1] \o <<" ">> \o Join(Tail(tokens))

IsSpace(ch) == ch \in {" ", "\t"}

\* s from position i on with every run of spaces and tabs that has text on
\* both sides replaced by one space; the runs at the two ends of s are kept
\* as they are, or removed when trim is set
RECURSIVE CollapseFrom(_, _, _)
CollapseFrom(s, i, trim) ==
    IF i > Len(s) THEN <<>>
    ELSE LET atEnd == \/ \A j \in 1..i : IsSpace(s[j])
                      \/ \A j \in i..Len(s) : IsSpace(s[j])
             here == IF ~IsSpace(s[i]) THEN <<s[i]>>
                     ELSE IF atEnd THEN (IF trim THEN <<>> ELSE <<s[i]>>)
                     ELSE IF IsSpace(s[i - 1]) THEN <<>>
                     ELSE <<" ">>
         IN  here \o CollapseFrom(s, i + 1, trim)

NoQuote(s) == \A i \in 1..Len(s) : s[i] # "\""

\* C22 as stated: for s without a double quote, the tokens of
\* parse_command_line(s) joined with single spaces are s with its internal
\* whitespace runs collapsed.
C22_JoinIsCollapsed ==
    NoQuote(StoredParams) =>
        Join(parse_command_line(StoredParams)) = CollapseFrom(StoredParams, 1, FALSE)

\* C22 amended: for s without a double quote, the tokens of
\* parse_command_line(s) joined with single spaces are s with its leading and
\* trailing spaces and tabs removed and every other run of spaces and tabs
\* replaced by one space; so are the arguments given to the child.
C22_JoinIsTrimmedAndCollapsed ==
    NoQuote(StoredParams) =>
        /\ Join(parse_command_line(StoredParams)) = CollapseFrom(StoredParams, 1, TRUE)
        /\ procs # <<>> => Join(procs[child].args) = CollapseFrom(StoredParams, 1, TRUE)

C22_Witness ==
    /\ pc = "monitor"
    /\ StoredParams = PaddedExample
    /\ Join(procs[child].args) = <<"a", " ", "b">>

---------------------------------------------------------------------------
(* save_service_config followed by load_service_config *)

\* ProcessPriority::to_windows_value
PriorityToValue(p) ==
    CASE p = "Realtime"    -> 256
      [] p = "High"        -> 128
      [] p = "AboveNormal" -> 32768
      [] p = "Normal"      -> 32
      [] p = "BelowNormal" -> 16384
      [] p = "Idle"        -> 64

\* the values of key, with those of written in place of or added to them
Overwrite(key, written) ==
    [n \in DOMAIN key \cup DOMAIN written |->
        IF n \in DOMAIN written THEN written[n] ELSE key[n]]

\* `if let Some(ref v) = field { set_registry_string(name, v)? }`
WriteIfSome(name, field) ==
    IF IsSome(field) THEN [n \in {name} |-> Unwrap(field)] ELSE [n \in {} |-> 0]

\* save_service_config on the created or opened Parameters key
SaveServiceConfig(key, c) ==
    LET always == [Application          |-> c.application,
                   AppPriority          |-> PriorityToValue(c.app_priority),
                   AppNoConsole         |-> IF c.app_no_console THEN 1 ELSE 0,
                   AppThrottle          |-> c.app_throttle,
                   AppStopMethodSkip    |-> c.app_stop_method_skip,
                   AppStopMethodConsole |-> c.app_stop_method_console,
                   AppStopMethodWindow  |-> c.app_stop_method_window,
                   AppStopMethodThreads |-> c.app_stop_method_threads,
                   AppRestartDelay      |-> c.app_restart_delay,
                   AppExitDefault       |-> c.app_exit_default]
        k1 == Overwrite(key, always)
        k2 == Overwrite(k1, WriteIfSome("AppDirectory", c.app_directory))
        k3 == Overwrite(k2, WriteIfSome("AppParameters", c.app_parameters))
        k4 == Overwrite(k3, WriteIfSome("AppStdout", c.app_stdout))
        k5 == Overwrite(k4, WriteIfSome("AppStderr", c.app_stderr))
    IN  Overwrite(k5, WriteIfSome("AppStdin", c.app_stdin))

\* the ServiceConfig records given to save_service_config; install_service
\* gives app_directory the parent of the application path, which is empty
\* for a bare file name
SavedConfigs ==
    { [DefaultConfig EXCEPT !.application = "app.exe",
                            !.app_directory = dir,
                            !.app_parameters = params,
                            !.app_priority = prio,
                            !.app_no_console = nc,
                            !.app_exit_default = e,
                            !.app_stop_method_skip = skip,
                            !.app_stdout = out] :
        dir \in {None, Some("C:\\app"), Some("")},
        params \in {None, Some(<<"-", "v">>)},
        prio \in {"Normal", "Idle"},
        nc \in BOOLEAN,
        e \in {"Restart", "Ignore", "Exit"},
        skip \in {0, 15},
        out \in {None, Some("out.log")} }

\* the Parameters key before the save: absent, or left by an earlier save
PriorKeys ==
    { None,
      Some([Application |-> "old.exe", AppDirectory |-> "C:\\old",
            AppStdout |-> "old.log", AppExitDefault |-> "Ignore"]),
      Some([Application |-> "old.exe", AppParameters |-> <<"x">>,
            AppPriority |-> 128, AppThrottle |-> 0]) }

\* a caller of save_service_config holds the ServiceConfig to persist
InitSave ==
    /\ pc = "save"
    /\ result = "none"
    /\ error_from = "none"
    /\ registry \in PriorKeys
    /\ cli = None
    /\ files = None
    /\ tail = None
    /\ config \in { Some(c) : c \in SavedConfigs }
    /\ handler = "unregistered"
    /\ last_reply = "none"
    /\ chan = 0
    /\ shutdown_seen = "none"
    /\ published = <<>>
    /\ service_exit_code = NO_ERROR
    /\ restart_after = None
    /\ consecutive_failures = 0
    /\ now = 0
    /\ start_time = 0
    /\ stage_start = 0
    /\ polls = 0
    /\ procs = <<>>
    /\ stop_actions = <<>>

\* save_service_config: RegCreateKeyExW creates the key when it is absent
SaveConfig ==
    /\ pc = "save"
    /\ \/ /\ registry' = Some(SaveServiceConfig(
                              IF registry = None THEN [n \in {} |-> 0]
                              ELSE Unwrap(registry), cfg))
          /\ pc' = "load_config"
          /\ UNCHANGED <<result, error_from>>
       \/ /\ ReturnErr("save")
          /\ UNCHANGED registry
    /\ UNCHANGED <<cli, files, tail, config, scmVars, shutdown_seen, published,
                   loopVars, now, procs, stop_actions>>

NextSave ==
    \/ SaveConfig
    \/ LoadConfig

SpecSave == InitSave /\ [][NextSave]_vars

\* C23: load_service_config after save_service_config yields the
\* ServiceConfig that was saved, whatever the key held before.
C23_SaveLoadRoundTrip ==
    [][(pc = "load_config" /\ pc' = "set_running") => config' = config]_vars

---------------------------------------------------------------------------
(* The uptime of a run and its classification *)

\* the uptime u of the current child: the time from its launch to its exit
Uptime == Unwrap(procs[child].exited_at) - start_time

\* C24: in the restart decision the run is classified unhealthy, and
\* consecutive_failures incremented, exactly when the child's uptime, from
\* its launch to its exit, is below app_throttle; otherwise it is healthy.
C24_UnhealthyIffUptimeBelowThrottle ==
    [][ \A c \in ExitCodes :
          (ExitedStep(c) /\ RestartDecided) =>
              ( (Uptime < cfg.app_throttle)
                  <=> (consecutive_failures' = consecutive_failures + 1) ) ]_vars

---------------------------------------------------------------------------
(* Leaving the backoff *)

\* the supervisor starts a child that is not the first one
Respawned == procs # <<>> /\ Len(procs') = Len(procs) + 1

\* C25: once the handler has sent a Stop or Shutdown on the shutdown channel
\* and the supervisor has not yet received it, the supervisor spawns no
\* further child, whether the restart deadline expires or the delay is zero.
C25_NoRespawnOnceShutdownSent ==
    [][ chan > 0 => ~Respawned ]_vars

---------------------------------------------------------------------------
(* A child found terminated *)

\* C26: a child found terminated with no exit code is restarted under every
\* app_exit_default, the restart is delayed by exactly app_throttle ms, and
\* consecutive_failures keeps its value.
C26_TerminatedAlwaysRestarts ==
    [][ TerminatedStep =>
          /\ RestartDecided
          /\ DelayScheduled = cfg.app_throttle
          /\ consecutive_failures' = consecutive_failures ]_vars

\* a terminated child of a service whose policy is not Restart has been
\* reaped and its restart is due app_throttle ms later
C26_Witness ==
    /\ config # None
    /\ cfg.app_exit_default \in {"Ignore", "Exit"}
    /\ cfg.app_throttle > 0
    /\ pc = "join_stdout"
    /\ service_exit_code = ServiceSpecific(StillActive)
    /\ restart_after = Some(now + cfg.app_throttle)

---------------------------------------------------------------------------
(* The tailer threads across restarts *)

\* a tailer thread that has not been joined: still reading, or finished with
\* its handle not yet joined
Unjoined(i) == \E stream \in Streams : procs[i][stream] \in {"running", "finished"}

\* C27: when a child has been spawned, the tailer threads of every earlier
\* child have terminated and been joined, so tailers of two different
\* children never exist at the same time.
C27_TailersJoinedBeforeRespawn ==
    \A i \in 1..Len(procs) : \A j \in 1..Len(procs) :
        (i < j) => ~Unjoined(i)

\* a second child runs with its tailers, those of the first one are joined
C27_Witness ==
    /\ Len(procs) = 2
    /\ procs[1].stdout = "joined"
    /\ procs[1].stderr = "joined"
    /\ procs[2].status = "running"
    /\ procs[2].stdout = "running"
    /\ procs[2].stderr = "running"

---------------------------------------------------------------------------
(* The order and the guards of the stop ladder's stages *)

\* the stages in the order of stop_child_process
StageOrder == <<"console", "window", "terminate", "kill">>

\* the position of a stage in the ladder
StageRank(a) == CHOOSE k \in 1..Len(StageOrder) : StageOrder[k] = a

\* the bit of app_stop_method_skip that skips a stage
StageBit(a) == Pow2(StageRank(a) - 1)

\* the stage is skipped under the loaded configuration
StageSkipped(a) ==
    \/ BitSet(cfg.app_stop_method_skip, StageBit(a))
    \/ a = "console" /\ cfg.app_no_console

\* the polled waits and the stage each belongs to
StageOfWait ==
    [wait_console |-> "console", wait_window |-> "window", wait_threads |-> "terminate"]

\* C28: the stage actions are performed in the order console signal, window
\* close, terminate, kill; a stage's action is performed only if its skip bit
\* (1, 2, 4, 8) is clear, the console one only if moreover app_no_console is
\* false; and a skipped stage has neither its action nor its timed wait.
C28_LadderOrderAndSkips ==
    config # None =>
        /\ \A i \in 1..Len(stop_actions) :
               /\ stop_actions[i] \in {StageOrder[k] : k \in 1..Len(StageOrder)}
               /\ ~StageSkipped(stop_actions[i])
        /\ \A i \in 1..Len(stop_actions) : \A j \in 1..Len(stop_actions) :
               (i < j) => StageRank(stop_actions[i]) < StageRank(stop_actions[j])
        /\ pc \in DOMAIN StageOfWait =>
               /\ ~StageSkipped(StageOfWait[pc])
               /\ stop_actions # <<>>
               /\ stop_actions[Len(stop_actions)] = StageOfWait[pc]

\* with the console stage barred by app_no_console and the terminate stage
\* skipped by bit 4, the ladder has closed the windows and then killed
C28_Witness ==
    /\ config # None
    /\ cfg.app_no_console
    /\ cfg.app_stop_method_skip = 4
    /\ stop_actions = <<"window", "kill">>
    /\ pc = "returned"

---------------------------------------------------------------------------
(* The polled waits of the stop ladder *)

\* a probe of a stage's polled wait finds the child exited
ExitObservedInWait ==
    /\ pc \in DOMAIN StageOfWait
    /\ procs[child].status = "exited"
    /\ procs'[child].status = "reaped"

\* the action of a stage is performed after that of an earlier stage
LaterStageAction ==
    /\ pc \in {"stop_window", "stop_terminate", "stop_kill"}
    /\ stop_actions # <<>>
    /\ stop_actions' # stop_actions

\* the wait budget of a stage, ms
StageTimeout(a) ==
    CASE a = "console"   -> cfg.app_stop_method_console
      [] a = "window"    -> cfg.app_stop_method_window
      [] a = "terminate" -> cfg.app_stop_method_threads

\* the last stage performed has used up its wait budget
EarlierTimeoutElapsed ==
    now - stage_start >= StageTimeout(stop_actions[Len(stop_actions)])

\* the ladder has returned after a probe that found the child exited
ReturnsAtOnce ==
    /\ ExitObservedInWait => pc' = "stop_return"
    /\ pc \in {"stop_return", "set_stopped", "returned"} => stop_actions' = stop_actions

\* C29 as stated: when a probe of a stage's polled wait finds the child
\* exited, the ladder returns at once and performs no later action; a later
\* stage's action is performed only once the full timeout of the earlier
\* stage performed has elapsed, and with the child still running.
C29_LaterStageOnlyWhileRunning ==
    [][ /\ ReturnsAtOnce
        /\ LaterStageAction =>
               /\ EarlierTimeoutElapsed
               /\ procs[child].status = "running" ]_vars

\* C29: when a probe of a stage's polled wait finds the child exited, the
\* ladder returns at once and performs no later action; a later stage's
\* action is performed only once the full timeout of the earlier stage
\* performed has elapsed with no probe having found the child exited (it may
\* have exited unobserved since the last probe).
C29_LaterStageOnlyAfterFullTimeout ==
    [][ /\ ReturnsAtOnce
        /\ LaterStageAction =>
               /\ EarlierTimeoutElapsed
               /\ procs[child].status \in {"running", "exited"} ]_vars

\* the console stage used up its positive budget with the child running, and
\* the window stage has acted
C29_Witness ==
    /\ config # None
    /\ cfg.app_stop_method_console > 0
    /\ stop_actions = <<"console", "window">>
    /\ pc = "wait_window"
    /\ now - stage_start = 0
    /\ procs[child].status = "running"

---------------------------------------------------------------------------
(* Leaving the loop under the policy Restart *)

\* the supervisor leaves the 'outer loop towards the publication of Stopped
LeavesLoop == pc # "set_stopped" /\ pc' = "set_stopped"

\* the loop is left because a message, or the disconnection, was received on
\* the shutdown channel: in the backoff, or in monitoring and then through
\* the stop ladder
LeftOnShutdown ==
    /\ pc \in {"outer", "stop_return"}
    /\ shutdown_seen' # "none"

\* C30: under app_exit_default = Restart an exit with any code and a
\* termination without a code keep the supervisor in its loop and return no
\* error; the loop is left towards Stopped only on a shutdown signal, a
\* spawn failure or a probe failure.
C30_RestartPolicyNeverLeavesOnExit ==
    [][ (config # None /\ cfg.app_exit_default = "Restart") =>
          /\ ((\E c \in ExitCodes : ExitedStep(c)) \/ TerminatedStep) =>
                 /\ RestartDecided
                 /\ result' = "none"
          /\ LeavesLoop =>
                 (LeftOnShutdown \/ SpawnFailed \/ MonitorProbeFailed) ]_vars

\* under Restart a second child is monitored after the first one exited
\* with a non-zero code
C30_Witness ==
    /\ config # None
    /\ cfg.app_exit_default = "Restart"
    /\ Len(procs) = 2
    /\ procs[1].status = "reaped"
    /\ procs[2].status = "running"
    /\ service_exit_code = ServiceSpecific(7)
    /\ pc = "monitor"

---------------------------------------------------------------------------
(* The set, get and reset commands: service_manager.rs and main.rs *)

\* str::parse::<u32> on the decimal strings the model draws
ParseU32(value) ==
    CASE value = "0"    -> Some(0)
      [] value = "007"  -> Some(7)
      [] value = "15"   -> Some(15)
      [] value = "200"  -> Some(200)
      [] value = "1500" -> Some(1500)
      [] OTHER          -> None

\* u32::to_string on the numbers the model stores
U32ToString(n) ==
    CASE n = 0    -> "0"
      [] n = 7    -> "7"
      [] n = 15   -> "15"
      [] n = 200  -> "200"
      [] n = 1500 -> "1500"

\* ServiceStartType::from_str: the match is on the upper-cased string
StartTypeFromStr(s) ==
    CASE s \in {"AUTO", "auto", "SERVICE_AUTO_START"}       -> Some("Auto")
      [] s \in {"MANUAL", "demand", "SERVICE_DEMAND_START"} -> Some("Manual")
      [] s \in {"DISABLED", "SERVICE_DISABLED"}             -> Some("Disabled")
      [] OTHER                                              -> None

\* the START arm of get_service_parameter
StartTypeToStr(t) ==
    CASE t = "Auto"     -> "SERVICE_AUTO_START"
      [] t = "Manual"   -> "SERVICE_DEMAND_START"
      [] t = "Disabled" -> "SERVICE_DISABLED"

\* ProcessPriority::from_str: the match is on the upper-cased string
PriorityFromStr(s) ==
    CASE s \in {"REALTIME", "REALTIME_PRIORITY_CLASS"}        -> Some("Realtime")
      [] s \in {"HIGH", "high", "HIGH_PRIORITY_CLASS"}        -> Some("High")
      [] s \in {"ABOVENORMAL", "ABOVE_NORMAL_PRIORITY_CLASS"} -> Some("AboveNormal")
      [] s \in {"NORMAL", "NORMAL_PRIORITY_CLASS"}            -> Some("Normal")
      [] s \in {"BELOWNORMAL", "BELOW_NORMAL_PRIORITY_CLASS"} -> Some("BelowNormal")
      [] s \in {"IDLE", "idle", "IDLE_PRIORITY_CLASS"}        -> Some("Idle")
      [] OTHER                                                -> None

\* the APPPRIORITY arm of get_service_parameter
PriorityToStr(p) ==
    CASE p = "Realtime"    -> "REALTIME_PRIORITY_CLASS"
      [] p = "High"        -> "HIGH_PRIORITY_CLASS"
      [] p = "AboveNormal" -> "ABOVE_NORMAL_PRIORITY_CLASS"
      [] p = "Normal"      -> "NORMAL_PRIORITY_CLASS"
      [] p = "BelowNormal" -> "BELOW_NORMAL_PRIORITY_CLASS"
      [] p = "Idle"        -> "IDLE_PRIORITY_CLASS"

\* the config field behind each optional string parameter
OptionalField ==
    [APPDIRECTORY |-> "app_directory", APPPARAMETERS |-> "app_parameters",
     DISPLAYNAME |-> "display_name", DESCRIPTION |-> "description",
     APPSTDOUT |-> "app_stdout", APPSTDERR |-> "app_stderr", APPSTDIN |-> "app_stdin"]

\* the config field behind each numeric parameter
NumericField ==
    [APPTHROTTLE |-> "app_throttle", APPSTOPMETHOD |-> "app_stop_method_skip",
     APPSTOPMETHOD_CONSOLE |-> "app_stop_method_console",
     APPSTOPMETHOD_WINDOW |-> "app_stop_method_window",
     APPSTOPMETHOD_THREADS |-> "app_stop_method_threads",
     APPRESTARTDELAY |-> "app_restart_delay"]

\* the empty string; an AppParameters string is held as its characters
Empty(parameter) == IF parameter = "APPPARAMETERS" THEN <<>> ELSE ""

\* the match of set_service_parameter on the upper-cased parameter name:
\* the modified config, or None where the arm returns Err
ApplyParameter(c, parameter, value) ==
    CASE parameter = "APPLICATION" ->
             Some([c EXCEPT !.application = value])
      [] parameter \in DOMAIN OptionalField ->
             Some([c EXCEPT ![OptionalField[parameter]] =
                       IF value = Empty(parameter) THEN None ELSE Some(value)])
      [] parameter = "START" ->
             IF IsSome(StartTypeFromStr(value))
             THEN Some([c EXCEPT !.start_type = Unwrap(StartTypeFromStr(value))])
             ELSE None
      [] parameter = "APPPRIORITY" ->
             IF IsSome(PriorityFromStr(value))
             THEN Some([c EXCEPT !.app_priority = Unwrap(PriorityFromStr(value))])
             ELSE None
      [] parameter = "APPNOCONSOLE" ->
             Some([c EXCEPT !.app_no_console = (value # "0")])
      [] parameter \in DOMAIN NumericField ->
             IF IsSome(ParseU32(value))
             THEN Some([c EXCEPT ![NumericField[parameter]] = Unwrap(ParseU32(value))])
             ELSE None
      [] parameter = "APPEXITACTION" ->
             IF IsSome(ExitActionFromStr(value))
             THEN Some([c EXCEPT !.app_exit_default = Unwrap(ExitActionFromStr(value))])
             ELSE None
      [] OTHER -> None

\* set_service_parameter: load_service_config?, the match, save_service_config
SetServiceParameter(reg, parameter, value) ==
    IF reg = None
    THEN [ok |-> FALSE, registry |-> reg]
    ELSE LET applied == ApplyParameter(LoadServiceConfig(Unwrap(reg)), parameter, value)
         IN  IF applied = None
             THEN [ok |-> FALSE, registry |-> reg]
             ELSE [ok |-> TRUE,
                   registry |-> Some(SaveServiceConfig(Unwrap(reg), Unwrap(applied)))]

\* the match of get_service_parameter: the printed value, None for Err
GetServiceParameter(reg, parameter) ==
    IF reg = None
    THEN None
    ELSE LET c == LoadServiceConfig(Unwrap(reg))
         IN  CASE parameter = "APPLICATION" -> Some(c.application)
               [] parameter \in DOMAIN OptionalField ->
                      Some(IF IsSome(c[OptionalField[parameter]])
                           THEN Unwrap(c[OptionalField[parameter]])
                           ELSE Empty(parameter))
               [] parameter = "START" -> Some(StartTypeToStr(c.start_type))
               [] parameter = "APPPRIORITY" -> Some(PriorityToStr(c.app_priority))
               [] parameter = "APPNOCONSOLE" ->
                      Some(IF c.app_no_console THEN "1" ELSE "0")
               [] parameter \in DOMAIN NumericField ->
                      Some(U32ToString(c[NumericField[parameter]]))
               [] parameter = "APPEXITACTION" -> Some(c.app_exit_default)
               [] OTHER -> None

\* get_default_parameter_value
DefaultParameterValue(parameter) ==
    CASE parameter \in {"APPTHROTTLE", "APPSTOPMETHOD_CONSOLE",
                        "APPSTOPMETHOD_WINDOW", "APPSTOPMETHOD_THREADS"} -> "1500"
      [] parameter \in {"APPSTOPMETHOD", "APPRESTARTDELAY", "APPNOCONSOLE"} -> "0"
      [] parameter = "APPPRIORITY" -> "NORMAL_PRIORITY_CLASS"
      [] parameter = "START" -> "SERVICE_DEMAND_START"
      [] parameter = "APPEXITACTION" -> "Restart"
      [] OTHER -> Empty(parameter)

---------------------------------------------------------------------------
(* The persisted parameters edited while the service runs *)

\* Parameters keys of a service that is restarted at once, or after 200 ms
ReconfigKeys ==
    { [Application |-> "app.exe", AppThrottle |-> 0, AppParameters |-> <<"a">>],
      [Application |-> "app.exe", AppThrottle |-> 0, AppRestartDelay |-> 200,
       AppStdout |-> "out.log"],
      [Application |-> "app.exe", AppThrottle |-> 0, AppNoConsole |-> 1,
       AppStderr |-> "err.log"],
      [Application |-> "app.exe", AppThrottle |-> 0, AppNoConsole |-> 1] }

\* the parameters and values an administrator sets between two restarts
ReconfigEdits ==
    { <<"APPPARAMETERS", <<"b">> >>, <<"APPPARAMETERS", <<>> >>,
      <<"APPSTDOUT", "new.log">>, <<"APPEXITACTION", "Exit">>,
      <<"APPLICATION", "other.exe">> }

InitReconfig ==
    /\ pc = "register"
    /\ result = "none"
    /\ error_from = "none"
    /\ registry \in { Some(k) : k \in ReconfigKeys }
    /\ cli = None
    /\ files = None
    /\ tail = None
    /\ config = None
    /\ handler = "unregistered"
    /\ last_reply = "none"
    /\ chan = 0
    /\ shutdown_seen = "none"
    /\ published = <<>>
    /\ service_exit_code = NO_ERROR
    /\ restart_after = None
    /\ consecutive_failures = 0
    /\ now = 0
    /\ start_time = 0
    /\ stage_start = 0
    /\ polls = 0
    /\ procs = <<>>
    /\ stop_actions = <<>>

\* another process runs `set <service> <parameter> <value>` after the child
\* has exited and before the next one is spawned
ParameterEdited ==
    /\ procs # <<>>
    /\ procs[child].status # "running"
    /\ \E e \in ReconfigEdits :
          LET set == SetServiceParameter(registry, e[1], e[2])
          IN  /\ set.ok
              /\ registry' = set.registry
    /\ UNCHANGED <<pc, result, error_from, cli, files, tail, config, scmVars, shutdown_seen,
                   published, loopVars, now, procs, stop_actions>>

NextReconfig ==
    \/ RegisterHandler
    \/ NewServiceManager
    \/ LoadConfig
    \/ SetRunning
    \/ BackoffRecv
    \/ DelayComplete
    \/ Spawn
    \/ MonitorRecv
    \/ ProbeRunning
    \/ ProbeExited
    \/ ProbeTerminated
    \/ JoinStdout
    \/ JoinStderr
    \/ SetStopped
    \/ \E i \in 1..Len(procs) :
          \E c \in {Some(x) : x \in ExitCodes} \cup {None} : ChildExit(i, c)
    \/ \E i \in 1..Len(procs) : \E stream \in Streams : TailerEof(i, stream)
    \/ ParameterEdited

SpecReconfig == InitReconfig /\ [][NextReconfig]_vars

\* C31: the ServiceConfig loaded before the loop is never replaced, and every
\* child is launched from it, even when the persisted parameters were
\* changed between two restarts.
C31_ConfigLoadedOnce ==
    [][ config # None =>
          /\ config' = config
          /\ \A i \in 1..Len(procs') :
                 /\ procs'[i].args = ChildArgs
                 /\ (procs'[i].stdout = "none") = ~Piped ]_vars

\* a second child runs with the arguments of the first one although the
\* stored AppParameters were changed after the first one exited
C31_Witness ==
    /\ Len(procs) = 2
    /\ procs[2].status = "running"
    /\ procs[2].args = procs[1].args
    /\ procs[2].args = <<<<"a">>>>
    /\ Unwrap(registry).AppParameters = <<"b">>

---------------------------------------------------------------------------
(* The outcome of the loader *)

\* the loader has returned: with Err, or with the ServiceConfig in config'
LoaderReturned == pc = "load_config" /\ pc' # "load_config"

\* the registry value behind each defaulted field of the ServiceConfig
DefaultedValue ==
    [app_throttle |-> "AppThrottle", app_restart_delay |-> "AppRestartDelay",
     app_stop_method_skip |-> "AppStopMethodSkip",
     app_stop_method_console |-> "AppStopMethodConsole",
     app_stop_method_window |-> "AppStopMethodWindow",
     app_stop_method_threads |-> "AppStopMethodThreads",
     app_exit_default |-> "AppExitDefault"]

\* C32: the loader fails exactly when the Parameters key is absent or its
\* Application value is missing or empty; when it succeeds, every other
\* missing value has its default (AppThrottle 1500, AppRestartDelay 0,
\* AppStopMethodSkip 0, the stage timeouts 1500, AppExitDefault Restart).
C32_LoaderFailsIffUnusable ==
    [][ LoaderReturned =>
          /\ (result' = "Err") <=> ConfigUnusable
          /\ result' # "Err" =>
                 \A f \in DOMAIN DefaultedValue :
                     DefaultedValue[f] \notin DOMAIN Unwrap(registry) =>
                         Unwrap(config')[f] = DefaultConfig[f] ]_vars

---------------------------------------------------------------------------
(* The standard streams of the child *)

\* C33: stdout and stderr of every child are both piped, with both tailers
\* started, if app_stdout or app_stderr is set; both discarded if neither is
\* set and app_no_console is true; both inherited otherwise, and then no
\* tailer is started.
C33_StdioChoice ==
    config # None =>
        \A i \in 1..Len(procs) :
            LET redirected == cfg.app_stdout # None \/ cfg.app_stderr # None
                tailed == procs[i].stdout # "none" /\ procs[i].stderr # "none"
                untailed == procs[i].stdout = "none" /\ procs[i].stderr = "none"
            IN  /\ redirected => (procs[i].stdio = "piped" /\ tailed)
                /\ (~redirected /\ cfg.app_no_console) =>
                       (procs[i].stdio = "null" /\ untailed)
                /\ (~redirected /\ ~cfg.app_no_console) =>
                       (procs[i].stdio = "inherit" /\ untailed)

\* a child of a service with app_no_console and only app_stderr set runs
\* with piped streams and both tailers
C33_Witness ==
    /\ config # None
    /\ cfg.app_no_console
    /\ cfg.app_stdout = None
    /\ cfg.app_stderr # None
    /\ procs # <<>>
    /\ procs[1].stdio = "piped"
    /\ procs[1].stdout = "running"
    /\ procs[1].stderr = "running"

---------------------------------------------------------------------------
(* handle_stdout / handle_stderr line by line, on a child just spawned *)

\* Parameters keys with both streams, or stdout alone, sent to a file
TailerKeys ==
    { [Application |-> "app.exe", AppExitDefault |-> "Exit",
       AppStdout |-> "out.log", AppStderr |-> "err.log"],
      [Application |-> "app.exe", AppExitDefault |-> "Exit",
       AppStdout |-> "out.log"] }

\* what the child writes as one line: its text, its terminator (none on a
\* last line cut by the end of the stream), and whether it is valid UTF-8
RawLines ==
    { [text |-> "a", eol |-> "\n", utf8 |-> TRUE],
      [text |-> "b", eol |-> "\r\n", utf8 |-> TRUE],
      [text |-> "c", eol |-> "", utf8 |-> TRUE],
      [text |-> "?", eol |-> "\n", utf8 |-> FALSE] }

\* the output of a child on one stream: at most MaxLines lines, of which
\* only the last one may lack its terminator
PipeContents ==
    { q \in UNION { [1..n -> RawLines] : n \in 0..MaxLines } :
        \A k \in 1..Len(q) : (q[k].eol = "") => (k = Len(q)) }

\* output_path of the tailer of a stream
TailerPath(stream) == IF stream = "stdout" THEN cfg.app_stdout ELSE cfg.app_stderr

InitTailer ==
    /\ pc = "monitor"
    /\ result = "none"
    /\ error_from = "none"
    /\ registry \in { Some(k) : k \in TailerKeys }
    /\ cli = None
    /\ config = Some(LoadServiceConfig(Unwrap(registry)))
    /\ files \in [{"out.log", "err.log"} -> {<<>>, <<"old", "\n">>}]
    /\ files["err.log"] = <<>>
    /\ \E out \in PipeContents : \E err \in {q \in PipeContents : Len(q) <= 1} :
          tail = [stream \in Streams |->
                    [pipe   |-> IF stream = "stdout" THEN out ELSE err,
                     opened |-> FALSE,
                     before |-> IF IsSome(TailerPath(stream))
                                THEN files[Unwrap(TailerPath(stream))] ELSE <<>>,
                     read   |-> <<>>,
                     error  |-> "none"]]
    /\ handler = "registered"
    /\ last_reply = "none"
    /\ chan = 0
    /\ shutdown_seen = "none"
    /\ published = <<Status("Running", NO_ERROR)>>
    /\ service_exit_code = NO_ERROR
    /\ restart_after = None
    /\ consecutive_failures = 0
    /\ now = 0
    /\ start_time = 0
    /\ stage_start = 0
    /\ polls = 0
    /\ procs = <<NewChild>>
    /\ stop_actions = <<>>

\* TailerOpen whose OpenOptions truncate instead of append
TailerOpenTruncating(stream) ==
    /\ procs[child][stream] = "running"
    /\ ~tail[stream].opened
    /\ tail' = [tail EXCEPT ![stream].opened = TRUE]
    /\ files' = IF IsSome(TailerPath(stream))
                THEN [files EXCEPT ![Unwrap(TailerPath(stream))] = <<>>]
                ELSE files
    /\ UNCHANGED <<pc, result, error_from, registry, cli, config, scmVars,
                   shutdown_seen, published, loopVars, now, procs, stop_actions>>

\* OpenOptions::new().create(true).append(true).open(&path): Ok, or Err
\* which ends the tailer; without an output_path nothing is opened
TailerOpen(stream) ==
    /\ procs[child][stream] = "running"
    /\ ~tail[stream].opened
    /\ \/ /\ tail' = [tail EXCEPT ![stream].opened = TRUE]
          /\ UNCHANGED procs
       \/ /\ IsSome(TailerPath(stream))
          /\ tail' = [tail EXCEPT ![stream].error = "open"]
          /\ procs' = [procs EXCEPT ![child][stream] = "finished"]
    /\ UNCHANGED <<pc, result, error_from, registry, cli, files, config, scmVars,
                   shutdown_seen, published, loopVars, now, stop_actions>>

\* one turn of `for line in reader.lines()`: lines() strips the terminator
\* and yields Err on invalid UTF-8; writeln! makes one write for the line and
\* one for the LF, and either may fail. A line without terminator is
\* returned only at the end of the stream.
TailerLine(stream) ==
    /\ procs[child][stream] = "running"
    /\ tail[stream].opened
    /\ tail[stream].pipe # <<>>
    /\ LET line == Head(tail[stream].pipe)
           path == TailerPath(stream)
           taken == [tail EXCEPT ![stream].pipe = Tail(@)]
           got == [taken EXCEPT ![stream].read = Append(@, line.text)]
           stopped == [procs EXCEPT ![child][stream] = "finished"]
       IN  /\ (line.eol = "") => procs[child].status # "running"
           /\ IF ~line.utf8
              THEN /\ tail' = taken
                   /\ procs' = stopped
                   /\ UNCHANGED files
              ELSE IF path = None
              THEN /\ tail' = got
                   /\ UNCHANGED <<files, procs>>
              ELSE \/ /\ files' = [files EXCEPT ![Unwrap(path)] =
                                        @ \o <<line.text, "\n">>]
                      /\ tail' = got
                      /\ UNCHANGED procs
                   \/ /\ \E written \in {<<>>, <<line.text>>} :
                            files' = [files EXCEPT ![Unwrap(path)] = @ \o written]
                      /\ tail' = [got EXCEPT ![stream].error = "write"]
                      /\ procs' = stopped
    /\ UNCHANGED <<pc, result, error_from, registry, cli, config, scmVars,
                   shutdown_seen, published, loopVars, now, stop_actions>>

\* lines() returns None: the pipe is drained and the child's end is closed
TailerEnd(stream) ==
    /\ tail[stream].opened
    /\ tail[stream].pipe = <<>>
    /\ TailerEof(child, stream)

NextTailer ==
    \/ MonitorRecv
    \/ ProbeRunning
    \/ ProbeExited
    \/ SetStopped
    \/ ChildExit(child, Some(0))
    \/ \E stream \in Streams : TailerOpen(stream)
    \/ \E stream \in Streams : TailerLine(stream)
    \/ \E stream \in Streams : TailerEnd(stream)

SpecTailer == InitTailer /\ [][NextTailer]_vars

\* the lines, each followed by a single LF
RECURSIVE Terminated(_)
Terminated(lines) ==
    IF lines = <<>> THEN <<>>
    ELSE <<Head(lines), "\n">> \o Terminated(Tail(lines))

\* the tailer of a stream that has a target file ends in this step
TailerEnded(stream) ==
    /\ IsSome(TailerPath(stream))
    /\ procs[child][stream] = "running"
    /\ procs'[child][stream] = "finished"

\* the step touches nothing but the tailer of the stream and its file: the
\* child, the other tailer and the supervisor are as before
OnlyTailerStops(stream) ==
    /\ pc' = pc
    /\ result' = result
    /\ procs' = [procs EXCEPT ![child][stream] = "finished"]

\* every file keeps in this step what it held, at its head
OnlyAppends ==
    \A path \in DOMAIN files :
        /\ Len(files[path]) <= Len(files'[path])
        /\ SubSeq(files'[path], 1, Len(files[path])) = files[path]

---------------------------------------------------------------------------
(* The children left behind by a return *)

\* C35: once run_service_main has returned, with Ok or with Err, none of the
\* children it spawned is still running.
C35_NoChildRunningAfterReturn ==
    pc = "returned" => \A i \in 1..Len(procs) : procs[i].status # "running"

---------------------------------------------------------------------------
(* The restart deadline while a child is supervised *)

\* C36: while the last child spawned has not been seen to have exited,
\* restart_after is empty: a pending deadline is cleared before the spawn
\* and the next one is set only when the exit is observed.
C36_NoDeadlineWhileChildAlive ==
    (procs # <<>> /\ procs[child].status # "reaped") => restart_after = None

\* a second child runs, spawned after the throttle delay of the first one's
\* early exit had been scheduled and cleared
C36_Witness ==
    /\ Len(procs) = 2
    /\ procs[1].status = "reaped"
    /\ procs[2].status = "running"
    /\ consecutive_failures = 1
    /\ restart_after = None
    /\ pc = "monitor"

---------------------------------------------------------------------------
(* The stop ladder entered for a child that has exited *)

---------------------------------------------------------------------------
(* A set or reset command followed by a get command *)

\* the Parameters key before the command: no such service, a key as
\* install_service leaves it, and a key with every optional value stored
CliKeys ==
    { None,
      Some([Application |-> "app.exe", AppDirectory |-> "C:\\app"]),
      Some([Application |-> "app.exe", AppDirectory |-> "C:\\app",
            AppParameters |-> <<"-", "v">>, AppStdout |-> "out.log",
            AppStderr |-> "err.log", AppStdin |-> "in.txt",
            AppPriority |-> 128, AppNoConsole |-> 1, AppThrottle |-> 200,
            AppStopMethodSkip |-> 15, AppRestartDelay |-> 200,
            AppExitDefault |-> "Ignore"]) }

\* the parameter names and values given on the command line, those of
\* AppParameters apart
CliCommands ==
    {<<"APPLICATION", "other.exe">>, <<"BOGUS", "x">>}
    \cup { <<p, v>> : p \in DOMAIN OptionalField \ {"APPPARAMETERS"}, v \in {"", "x"} }
    \cup { <<"START", v>> : v \in {"auto", "SERVICE_DISABLED", "bogus"} }
    \cup { <<"APPPRIORITY", v>> : v \in {"high", "IDLE_PRIORITY_CLASS", "bogus"} }
    \cup { <<"APPNOCONSOLE", v>> : v \in {"0", "1", "yes"} }
    \cup { <<p, v>> : p \in DOMAIN NumericField, v \in {"0", "007", "1500", "x"} }
    \cup { <<"APPEXITACTION", v>> : v \in {"exit", "Ignore", "bogus"} }

InitCli ==
    /\ pc = "cli"
    /\ result = "none"
    /\ error_from = "none"
    /\ registry \in CliKeys
    /\ \/ \E c \in CliCommands :
             cli = Some([op |-> "none", parameter |-> c[1], value |-> c[2],
                         phase |-> "start", got |-> None])
       \* an AppParameters value is held as its characters
       \/ \E v \in {<<>>, <<"b">>} :
             cli = Some([op |-> "none", parameter |-> "APPPARAMETERS", value |-> v,
                         phase |-> "start", got |-> None])
    /\ files = None
    /\ tail = None
    /\ config = None
    /\ handler = "unregistered"
    /\ last_reply = "none"
    /\ chan = 0
    /\ shutdown_seen = "none"
    /\ published = <<>>
    /\ service_exit_code = NO_ERROR
    /\ restart_after = None
    /\ consecutive_failures = 0
    /\ now = 0
    /\ start_time = 0
    /\ stage_start = 0
    /\ polls = 0
    /\ procs = <<>>
    /\ stop_actions = <<>>

\* the command in progress
command == Unwrap(cli)

\* Commands::Set and Commands::Reset: set_service_parameter with the given
\* value, or with get_default_parameter_value of the parameter
SetCommand(op) ==
    /\ pc = "cli"
    /\ command.phase = "start"
    /\ LET value == IF op = "reset" THEN DefaultParameterValue(command.parameter)
                    ELSE command.value
           set == SetServiceParameter(registry, command.parameter, value)
       IN  /\ registry' = set.registry
           /\ cli' = Some([command EXCEPT !.op = op, !.value = value,
                               !.phase = IF set.ok THEN "set" ELSE "failed"])
    /\ UNCHANGED <<pc, result, error_from, files, tail, config, scmVars,
                   shutdown_seen, published, loopVars, now, procs, stop_actions>>

\* Commands::Get after a command that returned Ok
GetCommand ==
    /\ pc = "cli"
    /\ command.phase = "set"
    /\ cli' = Some([command EXCEPT !.phase = "got",
                        !.got = GetServiceParameter(registry, command.parameter)])
    /\ UNCHANGED <<pc, result, error_from, registry, files, tail, config, scmVars,
                   shutdown_seen, published, loopVars, now, procs, stop_actions>>

NextCli ==
    \/ SetCommand("set")
    \/ SetCommand("reset")
    \/ GetCommand

SpecCli == InitCli /\ [][NextCli]_vars

\* C38: a set_service_parameter that returns Ok followed by
\* get_service_parameter of the same name returns the value that was set, in
\* its canonical form, for every accepted name and value, Start, DisplayName
\* and Description included.
C38_GetReturnsWhatWasSet ==
    (cli # None /\ command.phase = "got" /\ command.op = "set") =>
        LET p == command.parameter
            v == command.value
            canonical ==
                CASE p = "START" -> StartTypeToStr(Unwrap(StartTypeFromStr(v)))
                  [] p = "APPPRIORITY" -> PriorityToStr(Unwrap(PriorityFromStr(v)))
                  [] p = "APPNOCONSOLE" -> IF v = "0" THEN "0" ELSE "1"
                  [] p \in DOMAIN NumericField -> U32ToString(Unwrap(ParseU32(v)))
                  [] p = "APPEXITACTION" -> Unwrap(ExitActionFromStr(v))
                  [] OTHER -> v
        IN  command.got = Some(canonical)

\* C39: setting AppDirectory, AppParameters, AppStdout, AppStderr or AppStdin
\* to the empty string, or resetting it, clears it: the following get
\* returns the empty string and the following load leaves the field unset,
\* whatever was stored before.
C39_EmptyOrResetClears ==
    ( /\ cli # None
      /\ command.phase = "got"
      /\ command.parameter \in {"APPDIRECTORY", "APPPARAMETERS", "APPSTDOUT",
                                "APPSTDERR", "APPSTDIN"}
      /\ command.value = Empty(command.parameter) ) =>
        /\ command.got = Some(Empty(command.parameter))
        /\ LoadServiceConfig(Unwrap(registry))[OptionalField[command.parameter]] = None

---------------------------------------------------------------------------
(* install_service followed by a run of the service *)

\* the lists of at most n arguments over ParamChars whose join with single
\* spaces has at most len characters
RECURSIVE ArgumentLists(_, _)
ArgumentLists(n, len) ==
    IF n = 0 \/ len < 0 THEN {<<>>}
    ELSE {<<>>} \cup
         UNION { { <<a>> \o rest : a \in [1..k -> ParamChars],
                                   rest \in ArgumentLists(n - 1, len - k - 1) } :
                 k \in 0..len }

\* `nssm-rs install svc C:\app\app.exe <arguments>` for a new service
InitInstall ==
    /\ pc = "install"
    /\ result = "none"
    /\ error_from = "none"
    /\ registry = None
    /\ cli \in { Some([op |-> "install", arguments |-> l]) :
                   l \in ArgumentLists(MaxArgs, MaxParamLen) }
    /\ files = None
    /\ tail = None
    /\ config = None
    /\ handler = "unregistered"
    /\ last_reply = "none"
    /\ chan = 0
    /\ shutdown_seen = "none"
    /\ published = <<>>
    /\ service_exit_code = NO_ERROR
    /\ restart_after = None
    /\ consecutive_failures = 0
    /\ now = 0
    /\ start_time = 0
    /\ stage_start = 0
    /\ polls = 0
    /\ procs = <<>>
    /\ stop_actions = <<>>

\* install_service: the ServiceConfig built from the arguments, then
\* create_service, which ends with save_service_config on a new key
InstallService ==
    /\ pc = "install"
    /\ LET arguments == command.arguments
           c == [DefaultConfig EXCEPT
                    !.application = "C:\\app\\app.exe",
                    !.app_directory = Some("C:\\app"),
                    !.app_parameters = IF arguments = <<>> THEN None
                                       ELSE Some(Join(arguments))]
       IN  \/ /\ registry' = Some(SaveServiceConfig([n \in {} |-> 0], c))
              /\ pc' = "register"
              /\ UNCHANGED <<result, error_from>>
           \* CreateServiceW or save_service_config fails
           \/ /\ ReturnErr("install")
              /\ UNCHANGED registry
    /\ UNCHANGED <<cli, files, tail, config, scmVars, shutdown_seen, published,
                   loopVars, now, procs, stop_actions>>

\* the installation, then the service run up to the launch of the child
NextInstall ==
    \/ InstallService
    \/ NextParse

SpecInstall == InitInstall /\ [][NextInstall]_vars

\* C40: the argument list given to install_service is the argument list the
\* child receives: parse_command_line of the stored AppParameters (the
\* arguments joined by single spaces) is the original list, for every list,
\* arguments with spaces or tabs included.
C40_ChildReceivesInstalledArguments ==
    (cli # None /\ registry # None) =>
        LET key == Unwrap(registry)
            stored == IF "AppParameters" \in DOMAIN key
                      THEN key.AppParameters ELSE <<>>
        IN  /\ parse_command_line(stored) = command.arguments
            /\ procs # <<>> => procs[child].args = command.arguments

============================================================================
